---- MODULE Spec2Model ----
(***************************************************************************)
(* Barcode approval server (src/api/main.py) over a Firebird database      *)
(* (src/api/database.py).  Every scan is a request that walks its resolver *)
(* one database call at a time; every database call is its own commit and  *)
(* may raise.  Strings are sequences of one-character strings, so that     *)
(* strip / upper / split / isdigit / int are computed, not assumed.        *)
(***************************************************************************)
EXTENDS Integers, Sequences, FiniteSets, TLC

VARIABLES wh, ostate, log, clock, req, scans, succeeded, stat, client

vars == <<wh, ostate, log, clock, req, scans, succeeded, stat, client>>

(***************************************************************************)
(* Bounds of the model.                                                    *)
(***************************************************************************)
MaxScans == 3

MaxConcurrentScans == 2

\* the loader threads the desktop client starts, and the barcodes it sends
MaxLoads == 2

MaxClientScans == 2

NULL == -1

\* ORDERSTATES: 4 is "Готов" (ready), 5 is "Отгружен" (shipped); EMPID 8 is the script user
Ready == 4

Shipped == 5

ScriptEmp == 8

(***************************************************************************)
(* Python str methods used by the server, on sequences of characters.      *)
(***************************************************************************)
LowerCase == <<"a", "b", "c", "d", "e", "f", "g", "h", "i", "j", "k", "l", "m",
               "n", "o", "p", "q", "r", "s", "t", "u", "v", "w", "x", "y", "z">>

UpperCase == <<"A", "B", "C", "D", "E", "F", "G", "H", "I", "J", "K", "L", "M",
               "N", "O", "P", "Q", "R", "S", "T", "U", "V", "W", "X", "Y", "Z">>

Digits == <<"0", "1", "2", "3", "4", "5", "6", "7", "8", "9">>

Whitespace == {" ", "\t"}

UpperChar(c) ==
    IF \E i \in 1..Len(LowerCase) : LowerCase[i] = c
    THEN UpperCase[CHOOSE i \in 1..Len(LowerCase) : LowerCase[i] = c]
    ELSE c

Upper(s) == [i \in 1..Len(s) |-> UpperChar(s[i])]

IsDigitChar(c) == \E i \in 1..Len(Digits) : Digits[i] = c

DigitValue(c) == (CHOOSE i \in 1..Len(Digits) : Digits[i] = c) - 1

\* characters that str.isdigit() accepts and int() does not: "sup2" stands for the
\* one character U+00B2, superscript two
SuperscriptDigits == {"sup2"}

\* str.isdigit(): non-empty and every character a digit
IsDigit(s) == Len(s) > 0 /\ \A i \in 1..Len(s) : IsDigitChar(s[i]) \/ s[i] \in SuperscriptDigits

\* non-empty and every character a decimal digit: what int() and \d take
IsDecimal(s) == Len(s) > 0 /\ \A i \in 1..Len(s) : IsDigitChar(s[i])

\* str.strip(): drop leading and trailing whitespace
Strip(s) ==
    LET keep == {i \in 1..Len(s) : s[i] \notin Whitespace}
    IN  IF keep = {} THEN << >>
        ELSE LET lo == CHOOSE i \in keep : \A j \in keep : i <= j
                 hi == CHOOSE i \in keep : \A j \in keep : i >= j
             IN  SubSeq(s, lo, hi)

Contains(s, c) == \E i \in 1..Len(s) : s[i] = c

FirstIndex(s, c) == CHOOSE i \in 1..Len(s) : s[i] = c /\ \A j \in 1..(i - 1) : s[j] # c

\* str.split(c, 1): the parts before and after the first c
SplitFirst(s, c) ==
    IF Contains(s, c)
    THEN <<SubSeq(s, 1, FirstIndex(s, c) - 1), SubSeq(s, FirstIndex(s, c) + 1, Len(s))>>
    ELSE <<s>>

\* str.split(c): all the parts
RECURSIVE Split(_, _)
Split(s, c) ==
    IF Contains(s, c)
    THEN <<SubSeq(s, 1, FirstIndex(s, c) - 1)>>
             \o Split(SubSeq(s, FirstIndex(s, c) + 1, Len(s)), c)
    ELSE <<s>>

RECURSIVE DigitsToInt(_)
DigitsToInt(s) ==
    IF Len(s) = 0 THEN 0
    ELSE 10 * DigitsToInt(SubSeq(s, 1, Len(s) - 1)) + DigitValue(s[Len(s)])

\* int(s): optional surrounding whitespace, optional sign, decimal digits
IntBody(s) == IF Len(s) > 0 /\ s[1] \in {"-", "+"} THEN Tail(s) ELSE s

IsInt(s) == IsDecimal(IntBody(Strip(s)))

ToInt(s) ==
    LET t == Strip(s)
    IN  IF Len(t) > 0 /\ t[1] = "-" THEN 0 - DigitsToInt(Tail(t))
        ELSE DigitsToInt(IntBody(t))

(***************************************************************************)
(* parse_barcode: the classifier.                                          *)
(***************************************************************************)
\* a classifier that knows the new prefixes only
PrefixTypeNewOnly(prefix) ==
    CASE prefix = <<"D">> -> "IZD"
      [] prefix = <<"O", "R", "D">> -> "ORD"
      [] prefix = <<"T">> -> "ITM"
      [] prefix = <<"S">> -> "SET"
      [] OTHER -> "NONE"

PrefixType(prefix) ==
    CASE prefix = <<"D">> -> "IZD"
      [] prefix = <<"O", "R", "D">> -> "ORD"
      [] prefix = <<"T">> -> "ITM"
      [] prefix = <<"S">> -> "SET"
      [] prefix = <<"I", "Z", "D">> -> "IZD"
      [] prefix = <<"I", "T", "M">> -> "ITM"
      [] prefix = <<"S", "E", "T">> -> "SET"
      [] OTHER -> "NONE"

\* digit strings taken for order ids whatever their length
LegacyTypeOrderOnly(barcode) ==
    IF IsDigit(barcode) THEN "LEGACY_ORD" ELSE "UNKNOWN"

LegacyType(barcode) ==
    IF IsDigit(barcode)
    THEN IF Len(barcode) = 9 THEN "LEGACY_IZD" ELSE "LEGACY_ORD"
    ELSE "UNKNOWN"

parse_barcode(raw) ==
    LET barcode == Upper(Strip(raw))
        parts   == SplitFirst(barcode, "-")
    IN  IF Contains(barcode, "-") /\ PrefixType(Strip(parts[1])) # "NONE"
        THEN [type |-> PrefixType(Strip(parts[1])), value |-> Strip(parts[2])]
        ELSE [type |-> LegacyType(barcode), value |-> barcode]

(***************************************************************************)
(* The database.  ORDERS, ORDERITEMS, MODELS, CT_ELEMENTS and the key      *)
(* columns of CT_WHDETAIL are never written by the server; they are the    *)
(* rows below.  The server writes CT_WHDETAIL.ISAPPROVED / DATEAPPROVED     *)
(* (wh), ORDERS.ORDERSTATEID (ostate) and ORDERSTATESREG (log).             *)
(***************************************************************************)
No19686 == <<"1", "9", "6", "8", "6">>

No20001 == <<"2", "0", "0", "0", "1">>

No30001 == <<"3", "0", "0", "0", "1">>

No50001 == <<"5", "0", "0", "0", "1">>

\* orders 3 and 4 share an order number; the warehouse of order 5 numbers its
\* items from 0
ORDERS ==
    { [ORDERID |-> 1, ORDERNO |-> No19686],
      [ORDERID |-> 2, ORDERNO |-> No20001],
      [ORDERID |-> 3, ORDERNO |-> No30001],
      [ORDERID |-> 4, ORDERNO |-> No30001],
      [ORDERID |-> 5, ORDERNO |-> No50001] }

OrderIds == {o.ORDERID : o \in ORDERS}

\* ORDERSTATES.NAME
StateName(id) ==
    CASE id = 3 -> "InWork"
      [] id = Ready -> "Ready"
      [] id = Shipped -> "Shipped"
      [] OTHER -> "Unknown"

\* constructions (101, 102, 103, 201, 301, 401) and glass fillings (11 .. 15, 21,
\* 31) are both ORDERITEMS; construction 102 has no model, 103 a model without
\* elements
ORDERITEMS ==
    { [ORDERITEMSID |-> 101, ORDERID |-> 1, QTY |-> 2, NAME |-> <<"0", "1">>],
      [ORDERITEMSID |-> 11, ORDERID |-> 1, QTY |-> 1,
       NAME |-> No19686 \o <<" ", "/", " ", "0", "1", " ", "/", " ", "C">>],
      [ORDERITEMSID |-> 12, ORDERID |-> 1, QTY |-> 1, NAME |-> No19686],
      [ORDERITEMSID |-> 13, ORDERID |-> 1, QTY |-> 1,
       NAME |-> No19686 \o <<" ", "/", " ", "0", "9">>],
      [ORDERITEMSID |-> 102, ORDERID |-> 1, QTY |-> 1, NAME |-> <<"0", "2">>],
      [ORDERITEMSID |-> 14, ORDERID |-> 1, QTY |-> 1,
       NAME |-> No19686 \o <<" ", "/", " ", "0", "2">>],
      [ORDERITEMSID |-> 103, ORDERID |-> 1, QTY |-> 1, NAME |-> <<"0", "3">>],
      [ORDERITEMSID |-> 15, ORDERID |-> 1, QTY |-> 1,
       NAME |-> No19686 \o <<" ", "/", " ", "0", "3">>],
      [ORDERITEMSID |-> 201, ORDERID |-> 2, QTY |-> 1, NAME |-> <<"0", "1">>],
      [ORDERITEMSID |-> 21, ORDERID |-> 2, QTY |-> 1,
       NAME |-> No20001 \o <<"/", "0", "1", "/", "C">>],
      [ORDERITEMSID |-> 301, ORDERID |-> 3, QTY |-> 1, NAME |-> <<"0", "1">>],
      [ORDERITEMSID |-> 401, ORDERID |-> 4, QTY |-> 1, NAME |-> <<"0", "1">>],
      [ORDERITEMSID |-> 31, ORDERID |-> 3, QTY |-> 1,
       NAME |-> No30001 \o <<" ", "/", " ", "0", "1", " ", "/", " ", "C">>],
      [ORDERITEMSID |-> 501, ORDERID |-> 5, QTY |-> 1, NAME |-> <<"0", "1">>],
      [ORDERITEMSID |-> 51, ORDERID |-> 5, QTY |-> 1,
       NAME |-> No50001 \o <<" ", "/", " ", "0", "1">>] }

MODELS ==
    { [MODELID |-> 1001, ORDERITEMSID |-> 101, MODELNO |-> 1],
      [MODELID |-> 1002, ORDERITEMSID |-> 101, MODELNO |-> 2],
      [MODELID |-> 1003, ORDERITEMSID |-> 103, MODELNO |-> 1],
      [MODELID |-> 2001, ORDERITEMSID |-> 201, MODELNO |-> 1],
      [MODELID |-> 3001, ORDERITEMSID |-> 301, MODELNO |-> 1],
      [MODELID |-> 4001, ORDERITEMSID |-> 401, MODELNO |-> 1],
      [MODELID |-> 5001, ORDERITEMSID |-> 501, MODELNO |-> 1] }

\* element 3 is a material (reference 7), elements 4 and 5 a set (reference 5);
\* elements 5, 7, 8 and 9 have no warehouse row; elements 12 and 13 are one
\* material (reference 9), element 12 with two warehouse rows
CT_ELEMENTS ==
    { [CTELEMENTSID |-> 1, MODELID |-> 1001, ORDERITEMSID |-> 101, CTTYPEELEMSID |-> 2,
       ITEMSDETAILID |-> NULL, ITEMSSETSID |-> NULL],
      [CTELEMENTSID |-> 2, MODELID |-> 1002, ORDERITEMSID |-> 101, CTTYPEELEMSID |-> 2,
       ITEMSDETAILID |-> NULL, ITEMSSETSID |-> NULL],
      [CTELEMENTSID |-> 3, MODELID |-> 1001, ORDERITEMSID |-> 101, CTTYPEELEMSID |-> 1,
       ITEMSDETAILID |-> 7, ITEMSSETSID |-> NULL],
      [CTELEMENTSID |-> 4, MODELID |-> 1001, ORDERITEMSID |-> 101, CTTYPEELEMSID |-> 3,
       ITEMSDETAILID |-> NULL, ITEMSSETSID |-> 5],
      [CTELEMENTSID |-> 5, MODELID |-> 1002, ORDERITEMSID |-> 101, CTTYPEELEMSID |-> 3,
       ITEMSDETAILID |-> NULL, ITEMSSETSID |-> 5],
      [CTELEMENTSID |-> 6, MODELID |-> 2001, ORDERITEMSID |-> 201, CTTYPEELEMSID |-> 2,
       ITEMSDETAILID |-> NULL, ITEMSSETSID |-> NULL],
      [CTELEMENTSID |-> 7, MODELID |-> 2001, ORDERITEMSID |-> 201, CTTYPEELEMSID |-> 2,
       ITEMSDETAILID |-> NULL, ITEMSSETSID |-> NULL],
      [CTELEMENTSID |-> 8, MODELID |-> 2001, ORDERITEMSID |-> NULL, CTTYPEELEMSID |-> 1,
       ITEMSDETAILID |-> 8, ITEMSSETSID |-> NULL],
      [CTELEMENTSID |-> 9, MODELID |-> 2001, ORDERITEMSID |-> 201, CTTYPEELEMSID |-> 3,
       ITEMSDETAILID |-> NULL, ITEMSSETSID |-> 6],
      [CTELEMENTSID |-> 10, MODELID |-> 3001, ORDERITEMSID |-> 301, CTTYPEELEMSID |-> 2,
       ITEMSDETAILID |-> NULL, ITEMSSETSID |-> NULL],
      [CTELEMENTSID |-> 11, MODELID |-> 4001, ORDERITEMSID |-> 401, CTTYPEELEMSID |-> 2,
       ITEMSDETAILID |-> NULL, ITEMSSETSID |-> NULL],
      [CTELEMENTSID |-> 12, MODELID |-> 1001, ORDERITEMSID |-> 101, CTTYPEELEMSID |-> 1,
       ITEMSDETAILID |-> 9, ITEMSSETSID |-> NULL],
      [CTELEMENTSID |-> 13, MODELID |-> 1002, ORDERITEMSID |-> NULL, CTTYPEELEMSID |-> 1,
       ITEMSDETAILID |-> 9, ITEMSSETSID |-> NULL],
      [CTELEMENTSID |-> 14, MODELID |-> 5001, ORDERITEMSID |-> 501, CTTYPEELEMSID |-> 2,
       ITEMSDETAILID |-> NULL, ITEMSSETSID |-> NULL] }

CT_WHDETAIL ==
    { [CTWHDETAILID |-> 1, CTELEMENTSID |-> 1, ITEMNO |-> 1, QTY |-> 1],
      [CTWHDETAILID |-> 2, CTELEMENTSID |-> 2, ITEMNO |-> 1, QTY |-> 1],
      [CTWHDETAILID |-> 3, CTELEMENTSID |-> 1, ITEMNO |-> 2, QTY |-> 1],
      [CTWHDETAILID |-> 4, CTELEMENTSID |-> 3, ITEMNO |-> 1, QTY |-> 1],
      [CTWHDETAILID |-> 5, CTELEMENTSID |-> 4, ITEMNO |-> 1, QTY |-> 1],
      [CTWHDETAILID |-> 6, CTELEMENTSID |-> 6, ITEMNO |-> 1, QTY |-> 1],
      [CTWHDETAILID |-> 7, CTELEMENTSID |-> 10, ITEMNO |-> 1, QTY |-> 1],
      [CTWHDETAILID |-> 8, CTELEMENTSID |-> 11, ITEMNO |-> 1, QTY |-> 1],
      [CTWHDETAILID |-> 21, CTELEMENTSID |-> 12, ITEMNO |-> 1, QTY |-> 1],
      [CTWHDETAILID |-> 22, CTELEMENTSID |-> 12, ITEMNO |-> 2, QTY |-> 1],
      [CTWHDETAILID |-> 23, CTELEMENTSID |-> 13, ITEMNO |-> 1, QTY |-> 1],
      [CTWHDETAILID |-> 24, CTELEMENTSID |-> 14, ITEMNO |-> 0, QTY |-> 1],
      [CTWHDETAILID |-> 25, CTELEMENTSID |-> 14, ITEMNO |-> 1, QTY |-> 1] }

WhIds == {w.CTWHDETAILID : w \in CT_WHDETAIL}

WhRow(id) == CHOOSE w \in CT_WHDETAIL : w.CTWHDETAILID = id

Element(id) == CHOOSE e \in CT_ELEMENTS : e.CTELEMENTSID = id

\* the database as one value
DB == [wh |-> wh, ostate |-> ostate, log |-> log, clock |-> clock]

(***************************************************************************)
(* Responses (models.ApprovalResponse, models.ProductInfo).  A message is   *)
(* its template (msg) with the values it interpolates.  None is NULL for    *)
(* numbers and NoneStr for strings.                                         *)
(***************************************************************************)
NoneStr == <<"None">>

NoInfo ==
    [present |-> FALSE, order_number |-> NoneStr, construction_number |-> NoneStr,
     item_number |-> NULL, orderitems_id |-> NULL, orderitems_name |-> NoneStr,
     qty |-> NULL, element |-> NULL, glass_orderitems_id |-> NULL, order_id |-> NULL,
     total_items_in_order |-> NULL, approved_items_in_order |-> NULL]

\* ProductInfo(...): pydantic rejects None for a field declared without Optional
ProductInfoValid(f) ==
    /\ f.order_number # NoneStr
    /\ f.construction_number # NoneStr
    /\ f.item_number # NULL
    /\ f.orderitems_id # NULL
    /\ f.orderitems_name # NoneStr
    /\ f.qty # NULL
    /\ f.glass_orderitems_id # NULL

\* ApprovalResponse(success, message, voice_message, product_info)
Response(success, msg, voice) ==
    [success |-> success, msg |-> msg, voice |-> voice, text |-> << >>, text2 |-> << >>,
     num |-> NULL, num2 |-> NULL, num3 |-> NULL, date |-> NULL, state |-> "",
     info |-> NoInfo]

NoResponse == Response(FALSE, "", "")

(***************************************************************************)
(* A request: the position of one call of process_barcode and its locals.  *)
(* queries, updates, raised, faulted, fault_at, db0, prior, rerun and       *)
(* prev_rows only record what the request did and what came before it; no   *)
(* step reads them.                                                         *)
(***************************************************************************)
Reqs == {1, 2}

NoProduct == [ORDERITEMSID |-> NULL, ORDERID |-> NULL, QTY |-> NULL, ORDERNO |-> NoneStr]

NewRequest(raw, d) ==
    [pc |-> "start", raw |-> raw, type |-> "", value |-> << >>,
     item_number |-> NULL, glass_orderitems_id |-> NULL,
     num |-> NULL, order_name |-> << >>, construction_number |-> NoneStr,
     product |-> NoProduct, order_id |-> NULL, order_number |-> NoneStr,
     orderitems_id |-> NULL, element |-> NULL,
     models |-> << >>, elements |-> << >>, whdetail_records |-> << >>, i |-> 0,
     total_updated |-> 0, total |-> NULL, approved |-> NULL, not_approved_count |-> 0,
     current_state |-> NULL, next_posit |-> NULL,
     resp |-> NoResponse,
     queries |-> 0, updates |-> 0, raised |-> "", faulted |-> FALSE, fault_at |-> "",
     db0 |-> d,
     prior |-> FALSE,
     rerun |-> FALSE, prev_rows |-> {}]

IdleRequest ==
    [NewRequest(<< >>, [wh |-> << >>, ostate |-> << >>, log |-> << >>, clock |-> 0])
        EXCEPT !.pc = "idle"]

Return(l, resp) == [l EXCEPT !.pc = "done", !.resp = resp]

\* the except clauses of process_barcode
Caught(exc) ==
    CASE exc = "ValueError" -> Response(FALSE, "processing_error", "processing_error")
      [] exc = "DatabaseError" -> Response(FALSE, "database_error", "database_error")
      [] OTHER -> Response(FALSE, "unknown_error", "unknown_error")

\* an exception that no except clause catches: the handler ends without a response
RaiseUncaught(l, exc) == [l EXCEPT !.pc = "failed", !.raised = exc]

Raise(l, exc) == Return([l EXCEPT !.raised = exc], Caught(exc))

\* all the orders in which a query without ORDER BY may return the rows S
RECURSIVE RowOrders(_)
RowOrders(S) ==
    IF S = {} THEN {<< >>}
    ELSE UNION {{<<x>> \o t : t \in RowOrders(S \ {x})} : x \in S}

RECURSIVE Sum(_, _)
Sum(f, S) ==
    IF S = {} THEN 0
    ELSE LET x == CHOOSE y \in S : TRUE IN f[x] + Sum(f, S \ {x})

(***************************************************************************)
(* Database.execute_query / execute_update.  A step of a request is the set *)
(* of outcomes [d |-> database after, l |-> request after] of its next      *)
(* database call together with the code that follows it up to the next      *)
(* call.  Every call may raise fdb.DatabaseError; a raising update is not   *)
(* committed.                                                               *)
(***************************************************************************)
Out(d, l) == [d |-> d, l |-> l]

Queried(l) == [l EXCEPT !.queries = @ + 1]

\* the database call of this step raised fdb.DatabaseError
Failed(l) == [l EXCEPT !.faulted = TRUE, !.fault_at = l.pc]

Updated(l) == [l EXCEPT !.updates = @ + 1]

\* an UPDATE that flips the flag instead of setting it
ApproveRowToggle(d, id) ==
    [d EXCEPT !.wh[id] = [ISAPPROVED |-> 1 - d.wh[id].ISAPPROVED, DATEAPPROVED |-> d.clock + 1],
              !.clock = d.clock + 1]

\* an UPDATE that writes the timestamp and leaves the flag as it was
ApproveRowDateOnly(d, id) ==
    [d EXCEPT !.wh[id] = [ISAPPROVED |-> d.wh[id].ISAPPROVED, DATEAPPROVED |-> d.clock + 1],
              !.clock = d.clock + 1]

\* an UPDATE ... WHERE CTELEMENTSID = (the element of the row id)
ApproveRowOfElement(d, id) ==
    [d EXCEPT !.wh = [k \in DOMAIN d.wh |->
                         IF WhRow(k).CTELEMENTSID = WhRow(id).CTELEMENTSID
                         THEN [ISAPPROVED |-> 1, DATEAPPROVED |-> d.clock + 1]
                         ELSE d.wh[k]],
              !.clock = d.clock + 1]

\* UPDATE CT_WHDETAIL SET ISAPPROVED = 1, DATEAPPROVED = CURRENT_TIMESTAMP WHERE CTWHDETAILID = id
\* (no row with this id: nothing is written)
ApproveRow(d, id) ==
    IF id \notin DOMAIN d.wh THEN d
    ELSE [d EXCEPT !.wh[id] = [ISAPPROVED |-> 1, DATEAPPROVED |-> d.clock + 1],
                   !.clock = d.clock + 1]

\* INSERT INTO orderstatesreg (..., orderid, orderstateid, empid, ..., stateposit, ...)
InsertState(d, order_id, state, posit) ==
    [d EXCEPT !.log = Append(d.log, [orderid |-> order_id, orderstateid |-> state,
                                     empid |-> ScriptEmp, stateposit |-> posit])]

\* an UPDATE that moves the order one state on from where it is
UpdateOrderStateNext(d, order_id, state) ==
    [d EXCEPT !.ostate[order_id] = d.ostate[order_id] + 1]

\* UPDATE orders SET orderstateid = state WHERE orderid = order_id
UpdateOrderState(d, order_id, state) == [d EXCEPT !.ostate[order_id] = state]

\* a position that is always the first
NextPositFirst(d, order_id) == 1

\* SELECT MAX(stateposit) FROM orderstatesreg WHERE orderid = ?, then (MAXPOSIT or 0) + 1
NextPosit(d, order_id) ==
    LET ps == {d.log[k].stateposit : k \in {j \in 1..Len(d.log) : d.log[j].orderid = order_id}}
    IN  IF ps = {} THEN 1 ELSE (CHOOSE p \in ps : \A q \in ps : q <= p) + 1

\* the CT_WHDETAIL rows the order statistics queries join to order_id:
\* ORDERS - ORDERITEMS - MODELS - CT_ELEMENTS (CTTYPEELEMSID = 2) - CT_WHDETAIL
Type2Rows(order_id) ==
    {w.CTWHDETAILID : w \in
        {w \in CT_WHDETAIL :
            /\ Element(w.CTELEMENTSID).CTTYPEELEMSID = 2
            /\ \E m \in MODELS, oi \in ORDERITEMS :
                  /\ m.MODELID = Element(w.CTELEMENTSID).MODELID
                  /\ oi.ORDERITEMSID = m.ORDERITEMSID
                  /\ oi.ORDERID = order_id}}

RowQty == [id \in WhIds |-> WhRow(id).QTY]

\* the rows among ids that are in the table CT_WHDETAIL of d
Stored(d, ids) == ids \cap DOMAIN d.wh

\* SUM(wd.qty), then "TOTAL if ... else 0"
StatTotal(d, order_id) == Sum(RowQty, Stored(d, Type2Rows(order_id)))

\* SUM(CASE WHEN wd.isapproved = 1 THEN wd.qty ELSE 0 END)
StatApproved(d, order_id) ==
    Sum(RowQty, {id \in Stored(d, Type2Rows(order_id)) : d.wh[id].ISAPPROVED = 1})

\* the count without "WHERE o.ORDERID = ?"
StatNotApprovedAnywhere(d, order_id) ==
    Cardinality({id \in DOMAIN d.wh : d.wh[id].ISAPPROVED = 0})

\* COUNT(CASE WHEN wd.isapproved = 0 THEN 1 END)
StatNotApproved(d, order_id) ==
    Cardinality({id \in Stored(d, Type2Rows(order_id)) : d.wh[id].ISAPPROVED = 0})

\* a SELECT that does not see the flag and the timestamp of the row
FetchedBlind(d, id) ==
    [CTWHDETAILID |-> id, CTELEMENTSID |-> WhRow(id).CTELEMENTSID,
     ITEMNO |-> WhRow(id).ITEMNO, ISAPPROVED |-> 0, DATEAPPROVED |-> NULL]

\* a fetched CT_WHDETAIL row: the values the SELECT saw
Fetched(d, id) ==
    [CTWHDETAILID |-> id, CTELEMENTSID |-> WhRow(id).CTELEMENTSID,
     ITEMNO |-> WhRow(id).ITEMNO,
     ISAPPROVED |-> d.wh[id].ISAPPROVED, DATEAPPROVED |-> d.wh[id].DATEAPPROVED]

FetchedRows(d, ids) ==
    {[k \in 1..Len(t) |-> Fetched(d, t[k])] : t \in RowOrders(Stored(d, ids))}

\* the index of the first fetched row from position k on that is not approved, or 0
NextUnapproved(records, k) ==
    LET open == {j \in k..Len(records) : records[j].ISAPPROVED # 1}
    IN  IF open = {} THEN 0 ELSE CHOOSE j \in open : \A h \in open : j <= h

(***************************************************************************)
(* process_izd_barcode: the unit resolver, the approval of the unit's rows  *)
(* and the order completion monitor.                                        *)
(***************************************************************************)
\* ProductInfo(...) then ApprovalResponse(...): a ValidationError is a ValueError
Construct(l, resp, fields) ==
    IF ProductInfoValid(fields)
    THEN Return(l, [resp EXCEPT !.info = [fields EXCEPT !.present = TRUE]])
    ELSE Raise(l, "ValueError")

IzdInfo(l) ==
    [NoInfo EXCEPT !.order_number = l.order_number,
                   !.construction_number = l.construction_number,
                   !.item_number = l.item_number,
                   !.orderitems_id = l.orderitems_id,
                   !.orderitems_name = l.construction_number,
                   !.qty = l.product.QTY,
                   !.element = l.element,
                   !.glass_orderitems_id = l.glass_orderitems_id,
                   !.order_id = l.order_id,
                   !.total_items_in_order = l.total,
                   !.approved_items_in_order = l.approved]

\* validation and parsing of the 9 digits, before the first query
IzdValidate(l) ==
    IF ~IsDigit(l.value) \/ Len(l.value) # 9
    THEN Return(l, [Response(FALSE, "izd_invalid_barcode", "izd_invalid_barcode")
                        EXCEPT !.text = l.value])
    ELSE IF ~IsInt(SubSeq(l.value, 1, 2)) \/ ~IsInt(SubSeq(l.value, 3, Len(l.value)))
    THEN Raise(l, "ValueError")
    ELSE [l EXCEPT !.pc = "izd_glass",
                   !.item_number = ToInt(SubSeq(l.value, 1, 2)),
                   !.glass_orderitems_id = ToInt(SubSeq(l.value, 3, Len(l.value)))]

\* "19686 / 01 / C-1 [...]" -> order_name, construction_number
IzdParseName(l, name) ==
    LET glass_name == Strip(name)
        parts      == Split(glass_name, "/")
    IN  IF glass_name = << >> \/ ~Contains(glass_name, "/")
        THEN Return(l, [Response(FALSE, "izd_glass_name_format", "izd_glass_name_format")
                            EXCEPT !.text = glass_name])
        ELSE IF Len(parts) < 2
        THEN Return(l, [Response(FALSE, "izd_glass_name_parse", "izd_glass_name_parse")
                            EXCEPT !.text = glass_name])
        ELSE [l EXCEPT !.pc = "izd_product",
                       !.order_name = Strip(parts[1]),
                       !.construction_number = Strip(parts[2])]

\* query_glass
IzdGlass(d, l) ==
    LET q    == Queried(l)
        rows == {oi \in ORDERITEMS : /\ oi.ORDERITEMSID = l.glass_orderitems_id
                                     /\ oi.ORDERID \in OrderIds}
    IN  {Out(d, Raise(Failed(q), "DatabaseError"))} \cup
        IF rows = {}
        THEN {Out(d, Return(q, [Response(FALSE, "izd_glass_not_found", "izd_glass_not_found")
                                    EXCEPT !.num = l.glass_orderitems_id]))}
        ELSE {Out(d, IzdParseName(q, g.NAME)) : g \in rows}

\* the rows of query_product: ORDERITEMS joined to ORDERS on the order number and the name
ProductRows(order_name, construction_number) ==
    {[ORDERITEMSID |-> oi.ORDERITEMSID, ORDERID |-> o.ORDERID, QTY |-> oi.QTY,
      ORDERNO |-> o.ORDERNO] :
        <<oi, o>> \in {x \in ORDERITEMS \X ORDERS :
                          /\ x[1].ORDERID = x[2].ORDERID
                          /\ x[2].ORDERNO = order_name
                          /\ x[1].NAME = construction_number}}

\* product_result[0] without the item number check
IzdProductFoundUnchecked(l, p) ==
    [l EXCEPT !.product = p, !.orderitems_id = p.ORDERITEMSID,
              !.order_number = Strip(p.ORDERNO), !.order_id = p.ORDERID, !.pc = "izd_models"]

\* product_result[0] and the item number check
IzdProductFound(l, p) ==
    LET l1 == [l EXCEPT !.product = p, !.orderitems_id = p.ORDERITEMSID,
                        !.order_number = Strip(p.ORDERNO), !.order_id = p.ORDERID]
    IN  IF l.item_number > p.QTY
        THEN Return(l1, [Response(FALSE, "izd_item_exceeds_qty", "izd_item_exceeds_qty")
                             EXCEPT !.num = l.item_number, !.num2 = p.QTY])
        ELSE [l1 EXCEPT !.pc = "izd_models"]

\* query_product
IzdProduct(d, l) ==
    LET q    == Queried(l)
        rows == ProductRows(l.order_name, l.construction_number)
    IN  {Out(d, Raise(Failed(q), "DatabaseError"))} \cup
        IF rows = {}
        THEN {Out(d, Return(q, [Response(FALSE, "izd_product_not_found", "izd_product_not_found")
                                    EXCEPT !.text = l.order_name,
                                           !.text2 = l.construction_number]))}
        ELSE {Out(d, IzdProductFound(q, p)) : p \in rows}

\* SELECT MODELID, MODELNO FROM MODELS WHERE ORDERITEMSID = ? ORDER BY MODELNO
ModelRows(orderitems_id) ==
    LET ms == {m \in MODELS : m.ORDERITEMSID = orderitems_id}
    IN  {t \in RowOrders(ms) : \A j, k \in 1..Len(t) : j < k => t[j].MODELNO <= t[k].MODELNO}

\* query_models
IzdModels(d, l) ==
    LET q == Queried(l)
    IN  {Out(d, Raise(Failed(q), "DatabaseError"))} \cup
        {Out(d, IF t = << >>
                THEN Return(q, [Response(FALSE, "izd_models_not_found", "izd_models_not_found")
                                    EXCEPT !.text = l.order_number,
                                           !.text2 = l.construction_number])
                ELSE [q EXCEPT !.pc = "izd_whdetail", !.i = 1, !.whdetail_records = << >>,
                               !.models = [k \in 1..Len(t) |-> t[k].MODELID]]) :
            t \in ModelRows(l.orderitems_id)}

\* the type-2 rows of the model whatever their item number
UnitRowIdsAnyItem(model_id, item_number) ==
    {w.CTWHDETAILID : w \in
        {w \in CT_WHDETAIL : /\ Element(w.CTELEMENTSID).MODELID = model_id
                             /\ Element(w.CTELEMENTSID).CTTYPEELEMSID = 2}}

\* WHERE e.MODELID = ? AND w.ITEMNO = ? AND e.CTTYPEELEMSID = 2
UnitRowIds(model_id, item_number) ==
    {w.CTWHDETAILID : w \in
        {w \in CT_WHDETAIL : /\ Element(w.CTELEMENTSID).MODELID = model_id
                             /\ w.ITEMNO = item_number
                             /\ Element(w.CTELEMENTSID).CTTYPEELEMSID = 2}}

\* after the loop over the models: not found, all approved already, or rows to approve
IzdFetched(l) ==
    LET records == l.whdetail_records
    IN  IF records = << >>
        THEN Return(l, [Response(FALSE, "izd_not_in_warehouse", "izd_not_in_warehouse")
                            EXCEPT !.text = l.order_number, !.text2 = l.construction_number])
        ELSE IF \A k \in 1..Len(records) : records[k].ISAPPROVED = 1
        THEN [l EXCEPT !.pc = "izd_total_items", !.element = records[1].CTELEMENTSID]
        ELSE [l EXCEPT !.pc = "izd_update", !.element = records[1].CTELEMENTSID,
                       !.total_updated = 0, !.i = NextUnapproved(records, 1)]

\* query_whdetail of the model l.i
IzdWhdetail(d, l) ==
    LET q == Queried(l)
    IN  {Out(d, Raise(Failed(q), "DatabaseError"))} \cup
        {Out(d, LET l1 == [q EXCEPT !.whdetail_records = @ \o rows, !.i = @ + 1]
                IN  IF l1.i <= Len(l1.models) THEN l1 ELSE IzdFetched(l1)) :
            rows \in FetchedRows(d, UnitRowIds(l.models[l.i], l.item_number))}

\* query_total_items
IzdTotalItems(d, l) ==
    LET q == Queried(l)
    IN  {Out(d, Raise(Failed(q), "DatabaseError")),
         Out(d, [q EXCEPT !.pc = "izd_approved_items", !.total = StatTotal(d, l.order_id)])}

\* query_approved_items and the already-approved response
IzdApprovedItems(d, l) ==
    LET q  == Queried(l)
        l1 == [q EXCEPT !.approved = StatApproved(d, l.order_id)]
    IN  {Out(d, Raise(Failed(q), "DatabaseError")),
         Out(d, Construct(l1,
                          [Response(FALSE, "izd_already_approved", "izd_already_approved")
                               EXCEPT !.date = l.whdetail_records[1].DATEAPPROVED],
                          IzdInfo(l1)))}

\* step 10: the success response
IzdRespond(l) ==
    LET complete == l.not_approved_count = 0 /\ l.total > 0
        fetched  == Len(l.whdetail_records)
    IN  Construct(l,
                  [Response(TRUE,
                            IF complete THEN "izd_approved_order_complete" ELSE "izd_approved",
                            IF complete THEN "order_complete" ELSE "izd_ready")
                       EXCEPT !.text = l.order_number,
                              !.text2 = IF complete THEN << >> ELSE l.construction_number,
                              !.num = l.total_updated,
                              !.num2 = Len(l.models),
                              !.num3 = IF l.total_updated < fetched
                                       THEN fetched - l.total_updated ELSE 0],
                  IzdInfo(l))

\* cursor.rowcount of the UPDATE of one row
RowsUpdated(d, id) == IF id \in DOMAIN d.wh THEN 1 ELSE 0

\* the update loop without the check of total_updated
IzdUpdateUnchecked(d, l) ==
    LET u  == Updated(l)
        id == l.whdetail_records[l.i].CTWHDETAILID
        l1 == [u EXCEPT !.total_updated = @ + RowsUpdated(d, id),
                        !.i = NextUnapproved(l.whdetail_records, l.i + 1)]
    IN  {Out(d, Raise(Failed(u), "DatabaseError")),
         Out(ApproveRow(d, id),
             IF l1.i # 0 THEN l1 ELSE [l1 EXCEPT !.pc = "izd_order_stats"])}

\* the update loop: one UPDATE per fetched row that was not approved
IzdUpdate(d, l) ==
    LET u  == Updated(l)
        id == l.whdetail_records[l.i].CTWHDETAILID
        l1 == [u EXCEPT !.total_updated = @ + RowsUpdated(d, id),
                        !.i = NextUnapproved(l.whdetail_records, l.i + 1)]
    IN  {Out(d, Raise(Failed(u), "DatabaseError")),
         Out(ApproveRow(d, id),
             IF l1.i # 0 THEN l1
             ELSE IF l1.total_updated = 0
             THEN Return(l1, Response(FALSE, "update_failed", "update_failed"))
             ELSE [l1 EXCEPT !.pc = "izd_order_stats"])}

\* query_order_stats, outside the try block
IzdOrderStats(d, l) ==
    LET q  == Queried(l)
        l1 == [q EXCEPT !.total = StatTotal(d, l.order_id),
                        !.approved = StatApproved(d, l.order_id),
                        !.not_approved_count = StatNotApproved(d, l.order_id)]
    IN  {Out(d, Raise(Failed(q), "DatabaseError")),
         Out(d, IF l1.not_approved_count = 0 /\ l1.total > 0
                THEN [l1 EXCEPT !.pc = "izd_current_state"]
                ELSE IzdRespond(l1))}

\* an exception inside the try block of the monitor is printed and dropped
IzdSwallow(l) == IzdRespond([Failed(l) EXCEPT !.raised = "DatabaseError"])

\* current_state_query
IzdCurrentState(d, l) ==
    LET q  == Queried(l)
        l1 == [q EXCEPT !.current_state = d.ostate[l.order_id]]
    IN  {Out(d, IzdSwallow(q)),
         Out(d, IF l1.current_state # Ready THEN [l1 EXCEPT !.pc = "izd_max_posit"]
                ELSE IzdRespond(l1))}

\* get_max_posit_query
IzdMaxPosit(d, l) ==
    LET q == Queried(l)
    IN  {Out(d, IzdSwallow(q)),
         Out(d, [q EXCEPT !.pc = "izd_insert_state", !.next_posit = NextPosit(d, l.order_id)])}

\* insert_state_query
IzdInsertState(d, l) ==
    LET u == Updated(l)
    IN  {Out(d, IzdSwallow(u)),
         Out(InsertState(d, l.order_id, Ready, l.next_posit), [u EXCEPT !.pc = "izd_update_state"])}

\* update_order_state_query
IzdUpdateState(d, l) ==
    LET u == Updated(l)
    IN  {Out(d, IzdSwallow(u)),
         Out(UpdateOrderState(d, l.order_id, Ready), IzdRespond(u))}

(***************************************************************************)
(* process_order_barcode: the shipment scan.                                *)
(***************************************************************************)
OrdValidate(l) ==
    IF ~IsInt(l.value)
    THEN Return(l, [Response(FALSE, "ord_invalid_barcode", "ord_invalid_barcode")
                        EXCEPT !.text = l.value])
    ELSE [l EXCEPT !.pc = "ord_query", !.order_id = ToInt(l.value)]

\* a check of the state that only stops the orders below Ready
OrdQueryBelowReady(d, l) ==
    LET q    == Queried(l)
        rows == {o \in ORDERS : o.ORDERID = l.order_id}
    IN  {Out(d, Raise(Failed(q), "DatabaseError"))} \cup
        IF rows = {}
        THEN {Out(d, Return(q, [Response(FALSE, "ord_not_found", "ord_not_found")
                                    EXCEPT !.num = l.order_id]))}
        ELSE {Out(d, LET l1 == [q EXCEPT !.order_number = Strip(o.ORDERNO),
                                         !.current_state = d.ostate[o.ORDERID]]
                     IN  IF l1.current_state < Ready
                         THEN Return(l1, [Response(FALSE, "ord_not_ready", "ord_not_ready")
                                              EXCEPT !.text = l1.order_number,
                                                     !.state = StateName(l1.current_state)])
                         ELSE [l1 EXCEPT !.pc = "ord_max_posit"]) : o \in rows}

\* query_order and the check of the state
OrdQuery(d, l) ==
    LET q    == Queried(l)
        rows == {o \in ORDERS : o.ORDERID = l.order_id}
    IN  {Out(d, Raise(Failed(q), "DatabaseError"))} \cup
        IF rows = {}
        THEN {Out(d, Return(q, [Response(FALSE, "ord_not_found", "ord_not_found")
                                    EXCEPT !.num = l.order_id]))}
        ELSE {Out(d, LET l1 == [q EXCEPT !.order_number = Strip(o.ORDERNO),
                                         !.current_state = d.ostate[o.ORDERID]]
                     IN  IF l1.current_state # Ready
                         THEN Return(l1, [Response(FALSE, "ord_not_ready", "ord_not_ready")
                                              EXCEPT !.text = l1.order_number,
                                                     !.state = StateName(l1.current_state)])
                         ELSE [l1 EXCEPT !.pc = "ord_max_posit"]) : o \in rows}

\* except Exception of the shipment: any failure after the state check
OrdFailed(l, exc) ==
    Return([l EXCEPT !.raised = exc], Response(FALSE, "ord_ship_error", "ord_ship_error"))

OrdInfo(l) == [NoInfo EXCEPT !.order_number = l.order_number, !.order_id = l.order_id]

\* the success response, built inside the try block
OrdRespond(l) ==
    IF ProductInfoValid(OrdInfo(l))
    THEN Return(l, [Response(TRUE, "ord_shipped", "ord_shipped")
                        EXCEPT !.text = l.order_number,
                               !.info = [OrdInfo(l) EXCEPT !.present = TRUE]])
    ELSE OrdFailed(l, "ValueError")

OrdMaxPosit(d, l) ==
    LET q == Queried(l)
    IN  {Out(d, OrdFailed(Failed(q), "DatabaseError")),
         Out(d, [q EXCEPT !.pc = "ord_insert_state", !.next_posit = NextPosit(d, l.order_id)])}

OrdInsertState(d, l) ==
    LET u == Updated(l)
    IN  {Out(d, OrdFailed(Failed(u), "DatabaseError")),
         Out(InsertState(d, l.order_id, Shipped, l.next_posit), [u EXCEPT !.pc = "ord_update_state"])}

OrdUpdateState(d, l) ==
    LET u == Updated(l)
    IN  {Out(d, OrdFailed(Failed(u), "DatabaseError")),
         Out(UpdateOrderState(d, l.order_id, Shipped), OrdRespond(u))}

(***************************************************************************)
(* process_itm_barcode and process_set_barcode: material and set scans.     *)
(***************************************************************************)
\* "if orderitems_id:"
Truthy(n) == n # NULL /\ n # 0

\* e.RNAME, stripped
ElementName(id) == <<"E">>

\* query_order of the enrichment: ORDERITEMS joined to ORDERS
OwnerRows(orderitems_id) ==
    {o \in ORDERS : \E oi \in ORDERITEMS : /\ oi.ORDERITEMSID = orderitems_id
                                            /\ oi.ORDERID = o.ORDERID}

\* the rows of CT_WHDETAIL filtered on their own key instead of the element's
ElementRowIdsByRowKey(element) ==
    {w.CTWHDETAILID : w \in {w \in CT_WHDETAIL : w.CTWHDETAILID = element}}

\* rows of "FROM CT_WHDETAIL w WHERE w.CTELEMENTSID = ?"
ElementRowIds(element) ==
    {w.CTWHDETAILID : w \in {w \in CT_WHDETAIL : w.CTELEMENTSID = element}}

ItmValidate(l) ==
    IF ~IsInt(l.value)
    THEN Return(l, [Response(FALSE, "itm_invalid_id", "itm_invalid_id") EXCEPT !.text = l.value])
    ELSE [l EXCEPT !.pc = "itm_element", !.num = ToInt(l.value)]

ItmInfo(l) ==
    [NoInfo EXCEPT !.order_number = l.order_number,
                   !.item_number = l.whdetail_records[1].ITEMNO,
                   !.orderitems_id = l.orderitems_id,
                   !.orderitems_name = ElementName(l.element),
                   !.element = l.element,
                   !.order_id = l.order_id,
                   !.total_items_in_order = l.total,
                   !.approved_items_in_order = l.approved]

\* query_element and element_result[0]
ItmElement(d, l) ==
    LET q    == Queried(l)
        rows == {e \in CT_ELEMENTS : e.ITEMSDETAILID # NULL /\ e.ITEMSDETAILID = l.num}
    IN  {Out(d, Raise(Failed(q), "DatabaseError"))} \cup
        IF rows = {}
        THEN {Out(d, Return(q, [Response(FALSE, "itm_not_found", "itm_not_found")
                                    EXCEPT !.num = l.num]))}
        ELSE {Out(d, [q EXCEPT !.element = e.CTELEMENTSID, !.orderitems_id = e.ORDERITEMSID,
                               !.pc = IF Truthy(e.ORDERITEMSID) THEN "itm_order"
                                      ELSE "itm_whdetail"]) : e \in rows}

\* query_order
ItmOrder(d, l) ==
    LET q    == Queried(l)
        rows == OwnerRows(l.orderitems_id)
    IN  {Out(d, Raise(Failed(q), "DatabaseError"))} \cup
        IF rows = {} THEN {Out(d, [q EXCEPT !.pc = "itm_whdetail"])}
        ELSE {Out(d, [q EXCEPT !.pc = "itm_order_stats", !.order_id = o.ORDERID,
                               !.order_number = Strip(o.ORDERNO)]) : o \in rows}

\* query_order_stats
ItmOrderStats(d, l) ==
    LET q == Queried(l)
    IN  {Out(d, Raise(Failed(q), "DatabaseError")),
         Out(d, [q EXCEPT !.pc = "itm_whdetail", !.total = StatTotal(d, l.order_id),
                          !.approved = StatApproved(d, l.order_id)])}

\* query_whdetail, whdetail_result[0] and the already-approved check
ItmWhdetail(d, l) ==
    LET q   == Queried(l)
        ids == Stored(d, ElementRowIds(l.element))
    IN  {Out(d, Raise(Failed(q), "DatabaseError"))} \cup
        IF ids = {}
        THEN {Out(d, Return(q, [Response(FALSE, "itm_not_in_warehouse", "itm_not_in_warehouse")
                                    EXCEPT !.num = l.num]))}
        ELSE {Out(d, LET l1 == [q EXCEPT !.whdetail_records = <<Fetched(d, id)>>]
                     IN  IF d.wh[id].ISAPPROVED = 1
                         THEN Construct(l1,
                                        [Response(FALSE, "itm_already_approved",
                                                  "itm_already_approved")
                                             EXCEPT !.date = d.wh[id].DATEAPPROVED],
                                        ItmInfo(l1))
                         ELSE [l1 EXCEPT !.pc = "itm_update"]) : id \in ids}

\* a material scan that sets the order Ready when its recount finds nothing unapproved
ItmUpdateCompleting(d, l) ==
    LET u  == Updated(l)
        id == l.whdetail_records[1].CTWHDETAILID
        l1 == [u EXCEPT !.total_updated = RowsUpdated(d, id)]
        d1 == ApproveRow(d, id)
        d2 == IF /\ l.order_id # NULL
                 /\ StatNotApproved(d1, l.order_id) = 0
                 /\ StatTotal(d1, l.order_id) > 0
                 /\ d1.ostate[l.order_id] # Ready
              THEN UpdateOrderState(InsertState(d1, l.order_id, Ready, NextPosit(d1, l.order_id)),
                                    l.order_id, Ready)
              ELSE d1
    IN  {Out(d, Raise(Failed(u), "DatabaseError")),
         Out(d2, Construct(l1, Response(TRUE, "itm_approved", "itm_ready"), ItmInfo(l1)))}

\* update_query
ItmUpdate(d, l) ==
    LET u  == Updated(l)
        id == l.whdetail_records[1].CTWHDETAILID
        l1 == [u EXCEPT !.total_updated = RowsUpdated(d, id)]
    IN  {Out(d, Raise(Failed(u), "DatabaseError")),
         Out(ApproveRow(d, id),
             IF l1.total_updated = 0
             THEN Return(l1, Response(FALSE, "update_failed", "update_failed"))
             ELSE Construct(l1, Response(TRUE, "itm_approved", "itm_ready"), ItmInfo(l1)))}

SetValidate(l) ==
    IF ~IsInt(l.value)
    THEN Return(l, [Response(FALSE, "set_invalid_id", "set_invalid_id") EXCEPT !.text = l.value])
    ELSE [l EXCEPT !.pc = "set_elements", !.num = ToInt(l.value)]

SetInfo(l) ==
    [NoInfo EXCEPT !.order_number = l.order_number,
                   !.orderitems_id = l.orderitems_id,
                   !.orderitems_name = ElementName(l.element),
                   !.qty = Len(l.whdetail_records),
                   !.element = l.element,
                   !.order_id = l.order_id,
                   !.total_items_in_order = l.total,
                   !.approved_items_in_order = l.approved]

\* query_elements
SetElements(d, l) ==
    LET q   == Queried(l)
        ids == {e.CTELEMENTSID : e \in
                   {e \in CT_ELEMENTS : e.ITEMSSETSID # NULL /\ e.ITEMSSETSID = l.num}}
    IN  {Out(d, Raise(Failed(q), "DatabaseError"))} \cup
        IF ids = {}
        THEN {Out(d, Return(q, [Response(FALSE, "set_not_found", "set_not_found")
                                    EXCEPT !.num = l.num]))}
        ELSE {Out(d, [q EXCEPT !.pc = "set_whdetail", !.elements = t, !.i = 1,
                               !.whdetail_records = << >>]) : t \in RowOrders(ids)}

\* the already-approved check and the start of the update loop
SetCheck(l) ==
    LET records == l.whdetail_records
    IN  IF \A k \in 1..Len(records) : records[k].ISAPPROVED = 1
        THEN Construct(l,
                       [Response(FALSE, "set_already_approved", "set_already_approved")
                            EXCEPT !.date = records[1].DATEAPPROVED],
                       SetInfo(l))
        ELSE [l EXCEPT !.pc = "set_update", !.total_updated = 0,
                       !.i = NextUnapproved(records, 1)]

\* after the loop over the elements: not found, or first_element and the enrichment
SetFetched(l) ==
    IF l.whdetail_records = << >>
    THEN Return(l, [Response(FALSE, "set_not_in_warehouse", "set_not_in_warehouse")
                        EXCEPT !.num = l.num])
    ELSE LET l1 == [l EXCEPT !.element = l.elements[1],
                             !.orderitems_id = Element(l.elements[1]).ORDERITEMSID]
         IN  IF Truthy(l1.orderitems_id) THEN [l1 EXCEPT !.pc = "set_order"]
             ELSE SetCheck(l1)

\* query_whdetail of the element l.i
SetWhdetail(d, l) ==
    LET q == Queried(l)
    IN  {Out(d, Raise(Failed(q), "DatabaseError"))} \cup
        {Out(d, LET l1 == [q EXCEPT !.whdetail_records = @ \o rows, !.i = @ + 1]
                IN  IF l1.i <= Len(l1.elements) THEN l1 ELSE SetFetched(l1)) :
            rows \in FetchedRows(d, ElementRowIds(l.elements[l.i]))}

\* query_order
SetOrder(d, l) ==
    LET q    == Queried(l)
        rows == OwnerRows(l.orderitems_id)
    IN  {Out(d, Raise(Failed(q), "DatabaseError"))} \cup
        IF rows = {} THEN {Out(d, SetCheck(q))}
        ELSE {Out(d, [q EXCEPT !.pc = "set_order_stats", !.order_id = o.ORDERID,
                               !.order_number = Strip(o.ORDERNO)]) : o \in rows}

\* query_stats
SetOrderStats(d, l) ==
    LET q == Queried(l)
    IN  {Out(d, Raise(Failed(q), "DatabaseError")),
         Out(d, SetCheck([q EXCEPT !.total = StatTotal(d, l.order_id),
                                   !.approved = StatApproved(d, l.order_id)]))}

\* the update loop of the set
SetUpdate(d, l) ==
    LET u  == Updated(l)
        id == l.whdetail_records[l.i].CTWHDETAILID
        l1 == [u EXCEPT !.total_updated = @ + RowsUpdated(d, id),
                        !.i = NextUnapproved(l.whdetail_records, l.i + 1)]
    IN  {Out(d, Raise(Failed(u), "DatabaseError")),
         Out(ApproveRow(d, id),
             IF l1.i # 0 THEN l1
             ELSE IF l1.total_updated = 0
             THEN Return(l1, Response(FALSE, "update_failed", "update_failed"))
             ELSE Construct(l1,
                            [Response(TRUE, "set_approved", "set_ready")
                                 EXCEPT !.num = l1.total_updated,
                                        !.num3 = Len(l1.whdetail_records) - l1.total_updated],
                            SetInfo(l1)))}

(***************************************************************************)
(* process_barcode: the handler of POST /api/process-barcode.               *)
(***************************************************************************)
Kind(type) ==
    CASE type \in {"IZD", "LEGACY_IZD"} -> "izd"
      [] type \in {"ORD", "LEGACY_ORD"} -> "ord"
      [] type = "ITM" -> "itm"
      [] type = "SET" -> "set"
      [] OTHER -> "unknown"

\* a routing whose last branch is the shipment instead of the unknown-format reply
DispatchElseOrder(l) ==
    LET barcode == Strip(l.raw)
        info    == parse_barcode(barcode)
        l1      == [l EXCEPT !.type = info.type, !.value = info.value]
    IN  CASE Kind(info.type) = "izd" -> IzdValidate(l1)
          [] Kind(info.type) = "itm" -> ItmValidate(l1)
          [] Kind(info.type) = "set" -> SetValidate(l1)
          [] OTHER -> OrdValidate(l1)

\* strip, parse_barcode and the routing by type, up to the first database call
Dispatch(l) ==
    LET barcode == Strip(l.raw)
        info    == parse_barcode(barcode)
        l1      == [l EXCEPT !.type = info.type, !.value = info.value]
    IN  CASE Kind(info.type) = "izd" -> IzdValidate(l1)
          [] Kind(info.type) = "ord" -> OrdValidate(l1)
          [] Kind(info.type) = "itm" -> ItmValidate(l1)
          [] Kind(info.type) = "set" -> SetValidate(l1)
          [] OTHER -> Return(l1, [Response(FALSE, "unknown_format", "unknown_format")
                                      EXCEPT !.text = barcode])

\* the next database call of the request l over the database d
StepOf(d, l) ==
    CASE l.pc = "izd_glass" -> IzdGlass(d, l)
      [] l.pc = "izd_product" -> IzdProduct(d, l)
      [] l.pc = "izd_models" -> IzdModels(d, l)
      [] l.pc = "izd_whdetail" -> IzdWhdetail(d, l)
      [] l.pc = "izd_total_items" -> IzdTotalItems(d, l)
      [] l.pc = "izd_approved_items" -> IzdApprovedItems(d, l)
      [] l.pc = "izd_update" -> IzdUpdate(d, l)
      [] l.pc = "izd_order_stats" -> IzdOrderStats(d, l)
      [] l.pc = "izd_current_state" -> IzdCurrentState(d, l)
      [] l.pc = "izd_max_posit" -> IzdMaxPosit(d, l)
      [] l.pc = "izd_insert_state" -> IzdInsertState(d, l)
      [] l.pc = "izd_update_state" -> IzdUpdateState(d, l)
      [] l.pc = "ord_query" -> OrdQuery(d, l)
      [] l.pc = "ord_max_posit" -> OrdMaxPosit(d, l)
      [] l.pc = "ord_insert_state" -> OrdInsertState(d, l)
      [] l.pc = "ord_update_state" -> OrdUpdateState(d, l)
      [] l.pc = "itm_element" -> ItmElement(d, l)
      [] l.pc = "itm_order" -> ItmOrder(d, l)
      [] l.pc = "itm_order_stats" -> ItmOrderStats(d, l)
      [] l.pc = "itm_whdetail" -> ItmWhdetail(d, l)
      [] l.pc = "itm_update" -> ItmUpdate(d, l)
      [] l.pc = "set_elements" -> SetElements(d, l)
      [] l.pc = "set_whdetail" -> SetWhdetail(d, l)
      [] l.pc = "set_order" -> SetOrder(d, l)
      [] l.pc = "set_order_stats" -> SetOrderStats(d, l)
      [] l.pc = "set_update" -> SetUpdate(d, l)
      [] OTHER -> {}

\* process_barcode run to its return with no other request in between: the
\* responses it can return and the database each leaves behind
RECURSIVE Outcomes(_, _)
Outcomes(d, l) ==
    IF l.pc = "done" THEN {[d |-> d, resp |-> l.resp]}
    ELSE UNION {Outcomes(out.d, out.l) : out \in StepOf(d, l)}

\* process_barcode run to its return with no other request in between: the
\* request as it ended and the database it left behind
RECURSIVE Runs(_, _)
Runs(d, l) ==
    IF l.pc = "done" THEN {[d |-> d, l |-> l]}
    ELSE UNION {Runs(out.d, out.l) : out \in StepOf(d, l)}

(***************************************************************************)
(* The scanned strings.                                                     *)
(***************************************************************************)
Unit(item, glass) == item \o <<"0", "0", "0", "0", "0">> \o glass

Prefixed(prefix, value) == prefix \o <<"-">> \o value

Unit0111 == Unit(<<"0", "1">>, <<"1", "1">>)

UnitBarcodes ==
    { Prefixed(<<"D">>, Unit0111),
      Prefixed(<<"I", "Z", "D">>, Unit0111),
      Unit0111,
      Prefixed(<<"D">>, Unit(<<"0", "2">>, <<"1", "1">>)),
      Prefixed(<<"D">>, Unit(<<"0", "3">>, <<"1", "1">>)),
      Prefixed(<<"D">>, Unit(<<"0", "1">>, <<"1", "2">>)),
      Prefixed(<<"D">>, Unit(<<"0", "1">>, <<"1", "3">>)),
      Prefixed(<<"D">>, Unit(<<"0", "1">>, <<"9", "9">>)),
      Prefixed(<<"D">>, Unit(<<"0", "1">>, <<"2", "1">>)),
      Prefixed(<<"D">>, <<"1", "2", "3", "4", "5">>),
      Prefixed(<<"I", "Z", "D">>, <<"1", "2", "A", "4", "5", "6", "7", "8", "9">>),
      Prefixed(<<"D">>, <<"1", "2", "-", "3", "4", "5", "6", "7", "8", "9">>),
      Prefixed(<<"D">>, [k \in 1..9 |-> "sup2"]) }

OrderBarcodes ==
    { Prefixed(<<"O", "R", "D">>, <<"1">>),
      <<"2">>,
      Prefixed(<<"O", "R", "D">>, <<"9">>),
      Prefixed(<<"O", "R", "D">>, <<"A">>) }

MaterialBarcodes ==
    { Prefixed(<<"T">>, <<"7">>),
      Prefixed(<<"T">>, <<"8">>),
      Prefixed(<<"T">>, <<"9", "0", "0">>),
      Prefixed(<<"T">>, <<"x">>) }

SetBarcodes ==
    { Prefixed(<<"S">>, <<"5">>),
      Prefixed(<<"S">>, <<"6">>),
      Prefixed(<<"S">>, <<"9", "0", "0">>) }

UnknownBarcodes ==
    { Prefixed(<<"X">>, <<"1">>),
      <<"A", "B", "C">> }

Barcodes == UnitBarcodes \cup OrderBarcodes \cup MaterialBarcodes \cup SetBarcodes
                \cup UnknownBarcodes

(***************************************************************************)
(* get_daily_statistics / get_order_statistics: the validation of the two   *)
(* dates, then one query.                                                   *)
(***************************************************************************)
ValueError == [y |-> 0, m |-> 0, d |-> 0]

\* calendar.isleap
IsLeap(y) == y % 4 = 0 /\ (y % 100 # 0 \/ y % 400 = 0)

DaysInMonth(y, m) ==
    IF m = 2 THEN (IF IsLeap(y) THEN 29 ELSE 28)
    ELSE IF m \in {4, 6, 9, 11} THEN 30 ELSE 31

\* %m: 1[0-2]|0[1-9]|[1-9]
MatchesMonth(p) ==
    \/ Len(p) = 2 /\ IsDecimal(p) /\ DigitsToInt(p) \in 1..12
    \/ Len(p) = 1 /\ IsDecimal(p) /\ DigitsToInt(p) \in 1..9

\* %d: 3[01]|[12]\d|0[1-9]|[1-9]| [1-9]
MatchesDay(p) ==
    \/ Len(p) = 2 /\ IsDecimal(p) /\ DigitsToInt(p) \in 1..31
    \/ Len(p) = 1 /\ IsDecimal(p) /\ DigitsToInt(p) \in 1..9
    \/ Len(p) = 2 /\ p[1] = " " /\ IsDigitChar(p[2]) /\ DigitValue(p[2]) \in 1..9

\* datetime.strptime(s, '%Y-%m-%d'): the whole string has to match
\* (\d\d\d\d)-(%m)-(%d) and to name a day of the calendar
strptime(s) ==
    LET parts == Split(s, "-")
    IN  IF \/ Len(parts) # 3
           \/ ~(Len(parts[1]) = 4 /\ IsDecimal(parts[1]))
           \/ ~MatchesMonth(parts[2])
           \/ ~MatchesDay(parts[3])
        THEN ValueError
        ELSE LET y == DigitsToInt(parts[1])
                 m == DigitsToInt(parts[2])
                 d == DigitValue(parts[3][Len(parts[3])])
                          + (IF Len(parts[3]) = 2 /\ parts[3][1] # " "
                             THEN 10 * DigitValue(parts[3][1]) ELSE 0)
             IN  IF y < 1 \/ d > DaysInMonth(y, m) THEN ValueError
                 ELSE [y |-> y, m |-> m, d |-> d]

RECURSIVE DaysBeforeMonth(_, _)
DaysBeforeMonth(y, m) ==
    IF m = 1 THEN 0 ELSE DaysBeforeMonth(y, m - 1) + DaysInMonth(y, m - 1)

\* date.toordinal()
Ordinal(dt) ==
    LET y1 == dt.y - 1
    IN  y1 * 365 + (y1 \div 4) - (y1 \div 100) + (y1 \div 400)
            + DaysBeforeMonth(dt.y, dt.m) + dt.d

\* ORDERS.PRODDATE
PRODDATE ==
    [o \in OrderIds |->
        CASE o = 1 -> [y |-> 2024, m |-> 1, d |-> 1]
          [] o = 2 -> [y |-> 2024, m |-> 6, d |-> 15]
          [] OTHER -> [y |-> 2024, m |-> 12, d |-> 31]]

StatResponse(success, msg, data) == [success |-> success, msg |-> msg, data |-> data]

NewStat(endpoint, start_date, end_date) ==
    [pc |-> "stat_query", endpoint |-> endpoint, start_date |-> start_date,
     end_date |-> end_date, queries |-> 0, resp |-> StatResponse(FALSE, "", {})]

IdleStat == [NewStat("", << >>, << >>) EXCEPT !.pc = "idle"]

StatReturn(s, resp) == [s EXCEPT !.pc = "done", !.resp = resp]

\* the three checks that precede the query
ValidateDates(s) ==
    LET start_dt == strptime(s.start_date)
        end_dt   == strptime(s.end_date)
    IN  IF start_dt = ValueError \/ end_dt = ValueError
        THEN StatReturn(s, StatResponse(FALSE, "invalid_date_format", {}))
        ELSE IF Ordinal(start_dt) > Ordinal(end_dt)
        THEN StatReturn(s, StatResponse(FALSE, "start_after_end", {}))
        ELSE IF Ordinal(end_dt) - Ordinal(start_dt) > 365
        THEN StatReturn(s, StatResponse(FALSE, "range_too_long", {}))
        ELSE s

\* WHERE o.proddate BETWEEN ? AND ?
OrdersBetween(s) ==
    {o \in OrderIds : /\ Ordinal(strptime(s.start_date)) <= Ordinal(PRODDATE[o])
                      /\ Ordinal(PRODDATE[o]) <= Ordinal(strptime(s.end_date))}

\* the rows of the answer: one per production date, or one per order
StatData(s) ==
    IF s.endpoint = "daily" THEN {Ordinal(PRODDATE[o]) : o \in OrdersBetween(s)}
    ELSE OrdersBetween(s)

\* db.execute_query(query, (start_date, end_date)) and the except clauses
StatQuery(s) ==
    LET q == [s EXCEPT !.queries = @ + 1]
    IN  {StatReturn(q, StatResponse(FALSE, "database_error", {})),
         StatReturn(q, StatResponse(TRUE, "stat_ok", StatData(s)))}

(***************************************************************************)
(* The desktop client (src/client/main.py): the window thread runs          *)
(* process_barcode and start_background_stats_loading one at a time; every  *)
(* loader thread runs load_statistics_background beside it.                 *)
(***************************************************************************)
Loaders == 1..MaxLoads

\* a thread that was not started yet
NoLoader == [pc |-> "unborn", daily_data |-> "", order_data |-> ""]

\* BarcodeApp.__init__: the counters, the cached statistics, the flag
NewClient ==
    [stats |-> [total |-> 0, success |-> 0, failed |-> 0, already_approved |-> 0],
     daily_stats_data |-> "", order_stats_data |-> "", last_stats_update |-> 0,
     stats_loading |-> FALSE,
     loader |-> [t \in Loaders |-> NoLoader],
     refresh |-> "", window |-> "idle"]

\* the loader threads that are running load_statistics_background
InFlight(c) == {t \in Loaders : c.loader[t].pc \in {"daily", "order", "save", "finally"}}

\* start_background_stats_loading without the check of the flag
StartLoadingUnguarded(c, t) ==
    [c EXCEPT !.stats_loading = TRUE, !.refresh = "started", !.loader[t].pc = "daily"]

\* start_background_stats_loading: skipped while the flag is set, else the flag
\* is set and the thread t is started
StartLoading(c, t) ==
    IF c.stats_loading THEN [c EXCEPT !.refresh = "skipped"]
    ELSE [c EXCEPT !.stats_loading = TRUE, !.refresh = "started", !.loader[t].pc = "daily"]

\* what one requests.get of the loader leaves in daily_data / order_data: the
\* rows of a successful answer, the empty list of any other answer, or it raises
LoadOutcomes == {"rows", "empty", "raise"}

\* the first request with an exception that leaves the thread past the finally
LoadDailyUncaught(c, t, outcome) ==
    IF outcome = "raise" THEN [c EXCEPT !.loader[t].pc = "ended"]
    ELSE [c EXCEPT !.loader[t].pc = "order", !.loader[t].daily_data = outcome]

\* the request of the daily statistics; an exception goes to except and finally
LoadDaily(c, t, outcome) ==
    IF outcome = "raise" THEN [c EXCEPT !.loader[t].pc = "finally"]
    ELSE [c EXCEPT !.loader[t].pc = "order", !.loader[t].daily_data = outcome]

\* the request of the statistics by order
LoadOrder(c, t, outcome) ==
    IF outcome = "raise" THEN [c EXCEPT !.loader[t].pc = "finally"]
    ELSE [c EXCEPT !.loader[t].pc = "save", !.loader[t].order_data = outcome]

\* the cached statistics are replaced and the signal is emitted
LoadSave(c, t) ==
    [c EXCEPT !.daily_stats_data = c.loader[t].daily_data,
              !.order_stats_data = c.loader[t].order_data,
              !.last_stats_update = t,
              !.loader[t].pc = "finally"]

\* finally: self.stats_loading = False
LoadFinally(c, t) == [c EXCEPT !.stats_loading = FALSE, !.loader[t].pc = "ended"]

(***************************************************************************)
(* State, and what is remembered of the scans that ended:                   *)
(*   scans      the number of scans begun                                   *)
(*   succeeded  the unit values whose scan returned success                 *)
(*   stat       the statistics request of the dashboard                     *)
(***************************************************************************)
Rows(l) == {l.whdetail_records[k].CTWHDETAILID : k \in 1..Len(l.whdetail_records)}

InitLog ==
    << [orderid |-> 2, orderstateid |-> 1, empid |-> 1, stateposit |-> 1],
       [orderid |-> 2, orderstateid |-> 3, empid |-> 1, stateposit |-> 2] >>

Init ==
    /\ wh = [id \in WhIds |-> [ISAPPROVED |-> 0, DATEAPPROVED |-> NULL]]
    /\ ostate \in {[o \in OrderIds |-> IF o = 1 THEN x ELSE 3] : x \in {3, Ready}}
    /\ log = InitLog
    /\ clock = 0
    /\ req = [r \in Reqs |-> IdleRequest]
    /\ scans = 0
    /\ succeeded = {}
    /\ stat = IdleStat
    /\ client = NewClient

\* a request moves to l over the database d
Commit(r, out) ==
    /\ wh' = out.d.wh
    /\ ostate' = out.d.ostate
    /\ log' = out.d.log
    /\ clock' = out.d.clock
    /\ req' = [req EXCEPT ![r] = out.l]
    /\ succeeded' = IF out.l.pc = "done" /\ Kind(out.l.type) = "izd" /\ out.l.resp.success
                     THEN succeeded \cup {out.l.value} ELSE succeeded
    /\ UNCHANGED <<stat, client>>

\* a client posts a barcode; the request takes the place of the one that ended before it
Begin(r, raw) ==
    /\ req[r].pc \in {"idle", "done"}
    /\ scans < MaxScans
    /\ scans' = scans + 1
    /\ LET l     == Dispatch(NewRequest(raw, DB))
           rerun == /\ req[r].pc = "done"
                    /\ ~req[r].faulted
                    /\ Kind(req[r].type) = Kind(l.type)
                    /\ req[r].value = l.value
           l1    == [l EXCEPT !.prior = Kind(l.type) = "izd" /\ l.value \in succeeded,
                              !.rerun = rerun,
                              !.prev_rows = IF rerun THEN Rows(req[r]) ELSE {}]
       IN  Commit(r, Out(DB, l1))

Step(r, pc, outs) ==
    /\ req[r].pc = pc
    /\ UNCHANGED scans
    /\ \E out \in outs : Commit(r, out)

IzdGlassStep(r) == req[r].pc = "izd_glass" /\ Step(r, "izd_glass", IzdGlass(DB, req[r]))

IzdProductStep(r) == req[r].pc = "izd_product" /\ Step(r, "izd_product", IzdProduct(DB, req[r]))

IzdModelsStep(r) == req[r].pc = "izd_models" /\ Step(r, "izd_models", IzdModels(DB, req[r]))

IzdWhdetailStep(r) ==
    req[r].pc = "izd_whdetail" /\ Step(r, "izd_whdetail", IzdWhdetail(DB, req[r]))

IzdTotalItemsStep(r) ==
    req[r].pc = "izd_total_items" /\ Step(r, "izd_total_items", IzdTotalItems(DB, req[r]))

IzdApprovedItemsStep(r) ==
    req[r].pc = "izd_approved_items"
        /\ Step(r, "izd_approved_items", IzdApprovedItems(DB, req[r]))

IzdUpdateStep(r) == req[r].pc = "izd_update" /\ Step(r, "izd_update", IzdUpdate(DB, req[r]))

IzdOrderStatsStep(r) ==
    req[r].pc = "izd_order_stats" /\ Step(r, "izd_order_stats", IzdOrderStats(DB, req[r]))

IzdCurrentStateStep(r) ==
    req[r].pc = "izd_current_state"
        /\ Step(r, "izd_current_state", IzdCurrentState(DB, req[r]))

IzdMaxPositStep(r) ==
    req[r].pc = "izd_max_posit" /\ Step(r, "izd_max_posit", IzdMaxPosit(DB, req[r]))

IzdInsertStateStep(r) ==
    req[r].pc = "izd_insert_state" /\ Step(r, "izd_insert_state", IzdInsertState(DB, req[r]))

IzdUpdateStateStep(r) ==
    req[r].pc = "izd_update_state" /\ Step(r, "izd_update_state", IzdUpdateState(DB, req[r]))

OrdQueryStep(r) == req[r].pc = "ord_query" /\ Step(r, "ord_query", OrdQuery(DB, req[r]))

OrdMaxPositStep(r) ==
    req[r].pc = "ord_max_posit" /\ Step(r, "ord_max_posit", OrdMaxPosit(DB, req[r]))

OrdInsertStateStep(r) ==
    req[r].pc = "ord_insert_state" /\ Step(r, "ord_insert_state", OrdInsertState(DB, req[r]))

OrdUpdateStateStep(r) ==
    req[r].pc = "ord_update_state" /\ Step(r, "ord_update_state", OrdUpdateState(DB, req[r]))

ItmElementStep(r) == req[r].pc = "itm_element" /\ Step(r, "itm_element", ItmElement(DB, req[r]))

ItmOrderStep(r) == req[r].pc = "itm_order" /\ Step(r, "itm_order", ItmOrder(DB, req[r]))

ItmOrderStatsStep(r) ==
    req[r].pc = "itm_order_stats" /\ Step(r, "itm_order_stats", ItmOrderStats(DB, req[r]))

ItmWhdetailStep(r) ==
    req[r].pc = "itm_whdetail" /\ Step(r, "itm_whdetail", ItmWhdetail(DB, req[r]))

ItmUpdateStep(r) == req[r].pc = "itm_update" /\ Step(r, "itm_update", ItmUpdate(DB, req[r]))

SetElementsStep(r) ==
    req[r].pc = "set_elements" /\ Step(r, "set_elements", SetElements(DB, req[r]))

SetWhdetailStep(r) ==
    req[r].pc = "set_whdetail" /\ Step(r, "set_whdetail", SetWhdetail(DB, req[r]))

SetOrderStep(r) == req[r].pc = "set_order" /\ Step(r, "set_order", SetOrder(DB, req[r]))

SetOrderStatsStep(r) ==
    req[r].pc = "set_order_stats" /\ Step(r, "set_order_stats", SetOrderStats(DB, req[r]))

SetUpdateStep(r) == req[r].pc = "set_update" /\ Step(r, "set_update", SetUpdate(DB, req[r]))

IzdSteps(r) ==
    \/ IzdGlassStep(r)
    \/ IzdProductStep(r)
    \/ IzdModelsStep(r)
    \/ IzdWhdetailStep(r)
    \/ IzdTotalItemsStep(r)
    \/ IzdApprovedItemsStep(r)
    \/ IzdUpdateStep(r)
    \/ IzdOrderStatsStep(r)
    \/ IzdCurrentStateStep(r)
    \/ IzdMaxPositStep(r)
    \/ IzdInsertStateStep(r)
    \/ IzdUpdateStateStep(r)

OrdSteps(r) ==
    \/ OrdQueryStep(r)
    \/ OrdMaxPositStep(r)
    \/ OrdInsertStateStep(r)
    \/ OrdUpdateStateStep(r)

ItmSteps(r) ==
    \/ ItmElementStep(r)
    \/ ItmOrderStep(r)
    \/ ItmOrderStatsStep(r)
    \/ ItmWhdetailStep(r)
    \/ ItmUpdateStep(r)

SetSteps(r) ==
    \/ SetElementsStep(r)
    \/ SetWhdetailStep(r)
    \/ SetOrderStep(r)
    \/ SetOrderStatsStep(r)
    \/ SetUpdateStep(r)

\* one scanner: the scans follow each other
Next ==
    \/ \E raw \in Barcodes : Begin(1, raw)
    \/ IzdSteps(1)
    \/ OrdSteps(1)
    \/ ItmSteps(1)
    \/ SetSteps(1)

Spec == Init /\ [][Next]_vars

\* several scanners, each with its own server over the one database: the
\* requests interleave at every database call
ConcurrentBarcodes ==
    { Prefixed(<<"D">>, Unit0111),
      Prefixed(<<"D">>, Unit(<<"0", "2">>, <<"1", "1">>)),
      Prefixed(<<"D">>, Unit(<<"0", "1">>, <<"2", "1">>)),
      Prefixed(<<"O", "R", "D">>, <<"1">>),
      Prefixed(<<"T">>, <<"7">>),
      Prefixed(<<"S">>, <<"5">>) }

NextConcurrent ==
    \/ \E r \in Reqs, raw \in ConcurrentBarcodes :
          scans < MaxConcurrentScans /\ Begin(r, raw)
    \/ \E r \in Reqs : IzdSteps(r)
    \/ \E r \in Reqs : OrdSteps(r)
    \/ \E r \in Reqs : ItmSteps(r)
    \/ \E r \in Reqs : SetSteps(r)

SpecConcurrent == Init /\ [][NextConcurrent]_vars

\* one scanner of units, in the three spellings of a unit barcode, and of orders
SpellingBarcodes ==
    { Prefixed(<<"D">>, Unit0111),
      Prefixed(<<"I", "Z", "D">>, Unit0111),
      Unit0111,
      Prefixed(<<"D">>, Unit(<<"0", "2">>, <<"1", "1">>)),
      Unit(<<"0", "1">>, <<"2", "1">>),
      Prefixed(<<"O", "R", "D">>, <<"1">>) }

NextSpellings ==
    \/ \E raw \in SpellingBarcodes : Begin(1, raw)
    \/ IzdSteps(1)
    \/ OrdSteps(1)

SpecSpellings == Init /\ [][NextSpellings]_vars

\* one scanner of a unit whose order number and construction are those of two
\* order items
SharedNumberBarcodes == { Prefixed(<<"D">>, Unit(<<"0", "1">>, <<"3", "1">>)) }

NextSharedNumber ==
    \/ \E raw \in SharedNumberBarcodes : Begin(1, raw)
    \/ IzdSteps(1)

SpecSharedNumber == Init /\ [][NextSharedNumber]_vars

\* one scanner of arbitrary strings, each followed up to its first database
\* call: a prefix or none, a dash or none, a value, in either letter case, with
\* and without whitespace around the string and around the dash
ClassifierPrefixes ==
    { <<"D">>, <<"I", "Z", "D">>, <<"O", "R", "D">>, <<"T">>, <<"I", "T", "M">>,
      <<"S">>, <<"S", "E", "T">>, <<"i", "z", "d">>, <<"X">>, <<"1">>, << >> }

ClassifierSeparators == { <<"-">>, << >>, <<" ", "-">> }

ClassifierValues == { <<"7">>, <<" ", "7">>, Unit0111, <<"1", "-", "2">>, << >> }

ClassifierPadding == { << >>, <<" ", "\t">> }

ClassifierInputs ==
    { a \o p \o s \o v \o a : a \in ClassifierPadding, p \in ClassifierPrefixes,
                              s \in ClassifierSeparators, v \in ClassifierValues }

NextClassifier == \E raw \in ClassifierInputs : Begin(1, raw)

SpecClassifier == Init /\ [][NextClassifier]_vars

\* one scanner of units that fail at each check of the unit resolver, and of one
\* unit that is found
UnitFailureBarcodes ==
    { Prefixed(<<"D">>, Unit(<<"0", "1">>, <<"9", "9">>)),
      Prefixed(<<"D">>, Unit(<<"0", "1">>, <<"1", "2">>)),
      Prefixed(<<"D">>, Unit(<<"0", "1">>, <<"1", "3">>)),
      Prefixed(<<"D">>, Unit(<<"0", "3">>, <<"1", "1">>)),
      Prefixed(<<"D">>, Unit(<<"0", "2">>, <<"1", "4">>)),
      Prefixed(<<"D">>, Unit(<<"0", "1">>, <<"1", "4">>)),
      Prefixed(<<"D">>, Unit(<<"0", "1">>, <<"1", "5">>)),
      Prefixed(<<"D">>, Unit(<<"0", "1">>, <<"2", "1">>)) }

NextUnitFailures ==
    \/ \E raw \in UnitFailureBarcodes : Begin(1, raw)
    \/ IzdSteps(1)

SpecUnitFailures == Init /\ [][NextUnitFailures]_vars

\* the database is shared with the application that plans the orders: a row of
\* CT_WHDETAIL deleted there after a scan has fetched it unapproved is a row the
\* UPDATE ... WHERE CTWHDETAILID = ? of that scan does not find (cursor.rowcount = 0)
RemovableRows == {1, 2, 5, 6}

RemoveRow(id) ==
    /\ id \in DOMAIN wh
    /\ \E r \in Reqs :
           /\ req[r].pc \notin {"idle", "done"}
           /\ \E k \in 1..Len(req[r].whdetail_records) :
                  /\ req[r].whdetail_records[k].CTWHDETAILID = id
                  /\ req[r].whdetail_records[k].ISAPPROVED = 0
    /\ wh' = [k \in DOMAIN wh \ {id} |-> wh[k]]
    /\ UNCHANGED <<ostate, log, clock, req, scans, succeeded, stat, client>>

RowsRemovedBarcodes ==
    { Prefixed(<<"D">>, Unit0111),
      Prefixed(<<"D">>, Unit(<<"0", "1">>, <<"2", "1">>)),
      Prefixed(<<"S">>, <<"5">>) }

NextRowsRemoved ==
    \/ \E raw \in RowsRemovedBarcodes : Begin(1, raw)
    \/ IzdSteps(1)
    \/ SetSteps(1)
    \/ \E id \in RemovableRows : RemoveRow(id)

SpecRowsRemoved == Init /\ [][NextRowsRemoved]_vars

\* one scanner of materials: a material with several elements and rows, a
\* material of an order, a material without rows, an unknown material
MaterialScanBarcodes ==
    { Prefixed(<<"T">>, <<"9">>),
      Prefixed(<<"T">>, <<"7">>),
      Prefixed(<<"T">>, <<"8">>),
      Prefixed(<<"T">>, <<"9", "0", "0">>) }

NextMaterial ==
    \/ \E raw \in MaterialScanBarcodes : Begin(1, raw)
    \/ ItmSteps(1)

SpecMaterial == Init /\ [][NextMaterial]_vars

\* one scanner of the units of order 5 with the item numbers 0, 1 and 2, and of
\* the item 0 of a construction whose warehouse rows begin at 1
ItemNumberBarcodes ==
    { Prefixed(<<"D">>, Unit(<<"0", "0">>, <<"5", "1">>)),
      Prefixed(<<"D">>, Unit(<<"0", "1">>, <<"5", "1">>)),
      Prefixed(<<"D">>, Unit(<<"0", "2">>, <<"5", "1">>)),
      Prefixed(<<"D">>, Unit(<<"0", "0">>, <<"1", "1">>)) }

NextItemNumbers ==
    \/ \E raw \in ItemNumberBarcodes : Begin(1, raw)
    \/ IzdSteps(1)

SpecItemNumbers == Init /\ [][NextItemNumbers]_vars

\* the dashboard asks for statistics between two dates
StatFrame == UNCHANGED <<wh, ostate, log, clock, req, scans, succeeded, client>>

get_daily_statistics(start_date, end_date) ==
    /\ stat.pc \in {"idle", "done"}
    /\ stat' = ValidateDates(NewStat("daily", start_date, end_date))
    /\ StatFrame

get_order_statistics(start_date, end_date) ==
    /\ stat.pc \in {"idle", "done"}
    /\ stat' = ValidateDates(NewStat("orders", start_date, end_date))
    /\ StatFrame

StatQueryStep ==
    /\ stat.pc = "stat_query"
    /\ stat' \in StatQuery(stat)
    /\ StatFrame

Y2023 == <<"2", "0", "2", "3">>

Y2024 == <<"2", "0", "2", "4">>

Y2025 == <<"2", "0", "2", "5">>

DateString(y, m, d) == y \o <<"-">> \o m \o <<"-">> \o d

\* the date strings a caller sends: days of three years a year apart, days that
\* no calendar has, and strings in other shapes
StatDates ==
    { DateString(Y2024, <<"0", "1">>, <<"0", "1">>),
      DateString(Y2024, <<"0", "2">>, <<"2", "9">>),
      DateString(Y2024, <<"1", "2">>, <<"3", "1">>),
      DateString(Y2025, <<"0", "1">>, <<"0", "1">>),
      DateString(Y2023, <<"0", "1">>, <<"0", "1">>),
      DateString(Y2023, <<"0", "2">>, <<"2", "9">>),
      DateString(Y2024, <<"0", "2">>, <<"3", "0">>),
      DateString(Y2024, <<"1", "3">>, <<"0", "1">>),
      DateString(Y2024, <<"1">>, <<"5">>),
      DateString(Y2024, <<"0", "1">>, <<" ", "5">>),
      Y2024 \o <<"/", "0", "1", "/", "0", "5">>,
      <<"0", "1">> \o <<"-">> \o <<"0", "1">> \o <<"-">> \o Y2024,
      << >> }

NextStatistics ==
    \/ \E a, b \in StatDates : get_daily_statistics(a, b)
    \/ \E a, b \in StatDates : get_order_statistics(a, b)
    \/ StatQueryStep

SpecStatistics == Init /\ [][NextStatistics]_vars

\* every order is in work when the scanning starts: Ready and Shipped are only ever
\* written by the scans themselves
InitInWork == Init /\ \A o \in OrderIds : ostate[o] = 3

SpecInWork == InitInWork /\ [][Next]_vars

(***************************************************************************)
(* Properties.                                                              *)
(***************************************************************************)

\* C1: under any interleaving of scans, failing ones included, a CT_WHDETAIL row
\* that is approved stays approved: no step takes ISAPPROVED from 1 to anything else.
C1_ApprovalNeverCleared ==
    [][\A id \in WhIds : wh[id].ISAPPROVED = 1 => wh'[id].ISAPPROVED = 1]_vars

\* a scan that began over an approved row has written to the database, another
\* scan has failed part-way, and the row is still approved
C1_Witness ==
    \E r, r2 \in Reqs, id \in WhIds :
        /\ r # r2
        /\ req[r].pc = "done" /\ req[r].updates > 0
        /\ req[r].db0.wh[id].ISAPPROVED = 1
        /\ req[r2].pc = "done" /\ req[r2].faulted
        /\ \E a, b \in Rows(req[r2]) : wh[a].ISAPPROVED = 1 /\ wh[b].ISAPPROVED = 0
        /\ wh[id].ISAPPROVED = 1

\* the type-2 (glass unit) elements of the models of the items of an order
Type2Elements(order_id) ==
    {e.CTELEMENTSID : e \in
        {e \in CT_ELEMENTS :
            /\ e.CTTYPEELEMSID = 2
            /\ \E m \in MODELS, oi \in ORDERITEMS :
                  /\ m.MODELID = e.MODELID
                  /\ oi.ORDERITEMSID = m.ORDERITEMSID
                  /\ oi.ORDERID = order_id}}

\* no type-2 element of the order is unapproved or lacks an approved row
AllType2Approved(w, order_id) ==
    \A e \in Type2Elements(order_id) :
        /\ ElementRowIds(e) # {}
        /\ \A id \in ElementRowIds(e) : w[id].ISAPPROVED = 1

\* the database as the request r left it equals the database it began over
Untouched(r) ==
    /\ wh = req[r].db0.wh
    /\ ostate = req[r].db0.ostate
    /\ log = req[r].db0.log

\* C2: whenever a scan changes the state of an order (to Ready by the monitor, to
\* Shipped by a shipment scan), every type-2 element of every model of that order
\* is approved at that moment.
C2_StateChangeOnlyWhenAllApproved ==
    [][\A o \in OrderIds : ostate'[o] # ostate[o] => AllType2Approved(wh', o)]_vars

\* C3: the state of an order only moves forward: a Ready order stays Ready or
\* becomes Shipped, and a Shipped order is never rewritten (the monitor never
\* takes Shipped back to Ready).
C3_StateNeverReverted ==
    [][\A o \in OrderIds :
          /\ ostate[o] = Ready => ostate'[o] \in {Ready, Shipped}
          /\ ostate[o] = Shipped => ostate'[o] = Shipped]_vars

C5_SecondRunChangesNothing ==
    \A r \in Reqs :
        ( /\ req[r].pc = "done" /\ req[r].rerun /\ ~req[r].faulted
          /\ Kind(req[r].type) \in {"izd", "itm", "set"}
          /\ Rows(req[r]) = req[r].prev_rows ) =>
            /\ Untouched(r)
            /\ clock = req[r].db0.clock
            /\ req[r].updates = 0
            /\ req[r].total_updated = 0
            /\ req[r].resp.success = FALSE

\* a set scan whose rows were approved by the run before it has ended
C5_Witness ==
    \E r \in Reqs :
        /\ req[r].pc = "done" /\ req[r].rerun /\ ~req[r].faulted
        /\ Kind(req[r].type) = "set"
        /\ Rows(req[r]) # {} /\ Rows(req[r]) = req[r].prev_rows
        /\ \A id \in Rows(req[r]) : wh[id].ISAPPROVED = 1 /\ wh[id].DATEAPPROVED # NULL

\* C6: a barcode classified Unknown gets the fixed failure response (success =
\* false, the unknown-format message with the stripped barcode, no product info)
\* without any database read or write.
C6_UnknownTouchesNothing ==
    \A r \in Reqs :
        (req[r].pc \notin {"idle", "start"} /\ parse_barcode(Strip(req[r].raw)).type = "UNKNOWN") =>
            /\ req[r].pc = "done"
            /\ req[r].resp = [Response(FALSE, "unknown_format", "unknown_format")
                                  EXCEPT !.text = Strip(req[r].raw)]
            /\ req[r].resp.info.present = FALSE
            /\ req[r].queries = 0 /\ req[r].updates = 0
            /\ Untouched(r)

\* an unknown barcode was scanned after the database had been written to
C6_Witness ==
    \E r \in Reqs :
        /\ req[r].pc = "done" /\ req[r].type = "UNKNOWN"
        /\ req[r].resp.msg = "unknown_format"
        /\ \E id \in WhIds : wh[id].ISAPPROVED = 1

\* the nine-digit values of the scanned barcodes
NineDigits ==
    {x \in {parse_barcode(b).value : b \in SpellingBarcodes} : IsDigit(x) /\ Len(x) = 9}

\* the request a scan of the string raw starts as, over the database as it is
Scan(raw) == Dispatch(NewRequest(raw, DB))

\* C7: for nine digits x the strings "D-x", "IZD-x" and "x" go to the unit
\* resolver with the value x, and from the same database state the three scans
\* have the same responses and leave the same database states.
C7_UnitSpellingsEquivalent ==
    (\A r \in Reqs : req[r].pc \in {"idle", "done"}) =>
        \A x \in NineDigits :
            LET new    == Scan(Prefixed(<<"D">>, x))
                old    == Scan(Prefixed(<<"I", "Z", "D">>, x))
                legacy == Scan(x)
            IN  /\ Kind(new.type) = "izd" /\ new.value = x
                /\ Kind(old.type) = "izd" /\ old.value = x
                /\ Kind(legacy.type) = "izd" /\ legacy.value = x
                /\ LET outcomes == Outcomes(DB, new)
                   IN  /\ outcomes = Outcomes(DB, old)
                       /\ outcomes = Outcomes(DB, legacy)

\* the bare nine digits were scanned and approved rows, and what the scan
\* returned and left behind is an outcome of the scan of "D-x" over the database
\* the scan began with
C7_Witness ==
    \E r \in Reqs :
        /\ req[r].pc = "done" /\ req[r].raw = Unit0111 /\ req[r].type = "LEGACY_IZD"
        /\ req[r].resp.success /\ req[r].updates > 0
        /\ [d |-> DB, resp |-> req[r].resp]
              \in Outcomes(req[r].db0,
                           Dispatch(NewRequest(Prefixed(<<"D">>, Unit0111), req[r].db0)))

\* the request r is a shipment scan of an existing order whose query went through
ShipmentOf(r, o) ==
    /\ req[r].pc = "done" /\ Kind(req[r].type) = "ord"
    /\ IsInt(req[r].value) /\ ToInt(req[r].value) = o
    /\ req[r].queries > 0 /\ ~req[r].faulted

\* C8: a shipment scan of an order that is not Ready (Shipped included) returns
\* success = false with a message carrying the name of the current state, inserts
\* no record into the state log and leaves the state of the order unchanged.
C8_ShipmentOfNotReadyRejected ==
    \A r \in Reqs, o \in OrderIds :
        (ShipmentOf(r, o) /\ req[r].db0.ostate[o] # Ready) =>
            /\ req[r].resp.success = FALSE
            /\ req[r].resp.msg = "ord_not_ready"
            /\ req[r].resp.state = StateName(req[r].db0.ostate[o])
            /\ req[r].resp.state # "" /\ req[r].resp.state # StateName(Ready)
            /\ req[r].updates = 0
            /\ Untouched(r)

\* an order that is already Shipped has been scanned for shipment again
C8_Witness ==
    \E r \in Reqs, o \in OrderIds :
        /\ ShipmentOf(r, o)
        /\ req[r].db0.ostate[o] = Shipped
        /\ req[r].resp.state = "Shipped"
        /\ ostate[o] = Shipped

\* C9: a shipment scan of a Ready order appends exactly one Shipped record to the
\* state log, at the position after the highest one of the order and with the
\* system actor, sets the state of the order to Shipped and returns success = true
\* with the order number.
C9_ShipmentOfReadySucceeds ==
    \A r \in Reqs, o \in OrderIds :
        (ShipmentOf(r, o) /\ req[r].db0.ostate[o] = Ready) =>
            /\ log = Append(req[r].db0.log,
                            [orderid |-> o, orderstateid |-> Shipped, empid |-> ScriptEmp,
                             stateposit |-> NextPosit(req[r].db0, o)])
            /\ ostate = [req[r].db0.ostate EXCEPT ![o] = Shipped]
            /\ req[r].resp.success = TRUE
            /\ req[r].resp.text = req[r].order_number

\* the material or set scan r found no element for its identifier, or no
\* warehouse row for the elements it found
NothingToApprove(r) ==
    LET l == req[r]
    IN  /\ l.pc = "done" /\ ~l.faulted /\ IsInt(l.value)
        /\ \/ /\ Kind(l.type) = "itm"
              /\ \/ {e \in CT_ELEMENTS : e.ITEMSDETAILID = ToInt(l.value)} = {}
                 \/ l.element # NULL /\ {w \in CT_WHDETAIL : w.CTELEMENTSID = l.element} = {}
           \/ /\ Kind(l.type) = "set"
              /\ {w \in CT_WHDETAIL : \E e \in CT_ELEMENTS : /\ e.ITEMSSETSID = ToInt(l.value)
                                                              /\ w.CTELEMENTSID = e.CTELEMENTSID}
                    = {}

\* C10: a material or set scan that resolves no element, or elements without a
\* warehouse row, returns a not-found failure and changes nothing in the database.
C10_NotFoundChangesNothing ==
    \A r \in Reqs :
        NothingToApprove(r) =>
            /\ req[r].resp.success = FALSE
            /\ req[r].resp.msg \in {"itm_not_found", "itm_not_in_warehouse",
                                     "set_not_found", "set_not_in_warehouse"}
            /\ req[r].resp.info.present = FALSE
            /\ req[r].updates = 0
            /\ Untouched(r)

\* a material whose element has no warehouse row was scanned after rows of other
\* elements had been approved
C10_Witness ==
    \E r \in Reqs :
        /\ NothingToApprove(r)
        /\ req[r].resp.msg = "itm_not_in_warehouse"
        /\ \E id \in WhIds : wh[id].ISAPPROVED = 1

\* C11: no step of a material or set scan, whatever its outcome, changes the
\* state of an order or the state log, even when the scan approves a row of an
\* order that has no unapproved unit row left.
C11_MaterialAndSetLeaveOrders ==
    [][\A r \in Reqs :
          ( /\ Kind(req[r].type) \in {"itm", "set"}
            /\ req[r].pc \notin {"idle", "done"}
            /\ req'[r] # req[r] ) => (ostate' = ostate /\ log' = log)]_vars

\* a material scan has approved its row while every unit row of the owning order
\* was approved and the order was still waiting to be set Ready
C11_Witness ==
    \E r \in Reqs :
        /\ req[r].pc = "done" /\ Kind(req[r].type) = "itm" /\ ~req[r].faulted
        /\ req[r].updates > 0 /\ req[r].order_id \in OrderIds
        /\ \A id \in Rows(req[r]) : wh[id].ISAPPROVED = 1
        /\ \A id \in Type2Rows(req[r].order_id) : req[r].db0.wh[id].ISAPPROVED = 1
        /\ ostate[req[r].order_id] = 3
        /\ log = req[r].db0.log

\* the steps of the order enrichment of material and set scans
EnrichmentSteps == {"itm_order", "itm_order_stats", "set_order", "set_order_stats"}

\* the warehouse rows a material or set scan is to approve
TargetRows(l) ==
    IF Kind(l.type) = "itm" THEN ElementRowIds(l.element) ELSE Rows(l)

\* C12: when the owning-order lookup or the order count query of a material or
\* set scan raises a database error, the scan does not fail on it: the target
\* rows are approved and the response is not the database failure.
C12_EnrichmentFailureTolerated ==
    \A r \in Reqs :
        (req[r].pc = "done" /\ req[r].fault_at \in EnrichmentSteps) =>
            /\ \A id \in TargetRows(req[r]) : wh[id].ISAPPROVED = 1
            /\ req[r].resp.msg # "database_error"

\* the steps of the order completion monitor: the recount, the read of the
\* state, the highest position, the insert of the record, the update of the state
MonitorSteps ==
    {"izd_order_stats", "izd_current_state", "izd_max_posit", "izd_insert_state",
     "izd_update_state"}

\* C13: when a unit scan has newly approved at least one row and a step of the
\* completion monitor then fails, the scan still returns success = true and the
\* rows it approved stay approved.
C13_MonitorFailureKeepsSuccess ==
    \A r \in Reqs :
        ( /\ req[r].pc = "done" /\ Kind(req[r].type) = "izd"
          /\ req[r].total_updated >= 1
          /\ req[r].fault_at \in MonitorSteps ) =>
            /\ req[r].resp.success = TRUE
            /\ \A id \in Rows(req[r]) : wh[id].ISAPPROVED = 1

\* C14: when every unit row of an order is approved and the order was not set
\* Ready (the transition failed and was dropped), the next scan of a unit of
\* that order whose database calls all go through runs the completion monitor
\* again and the order is Ready when the scan ends.
C14_CompletionRetried ==
    \A r \in Reqs :
        ( /\ req[r].pc = "done" /\ Kind(req[r].type) = "izd" /\ ~req[r].faulted
          /\ req[r].order_id \in OrderIds /\ Rows(req[r]) # {}
          /\ \A id \in Type2Rows(req[r].order_id) : req[r].db0.wh[id].ISAPPROVED = 1
          /\ req[r].db0.ostate[req[r].order_id] \notin {Ready, Shipped} ) =>
            ostate[req[r].order_id] = Ready

\* C15: under every interleaving of scans the records of the state log of one
\* order have pairwise distinct positions, and each record has a position
\* strictly greater than every record of that order inserted before it.
C15_PositionsStrictlyIncrease ==
    \A j, k \in 1..Len(log) :
        (j < k /\ log[j].orderid = log[k].orderid) => log[j].stateposit < log[k].stateposit

\* the requests r1 and r2 are two scans of one unit barcode that began over the
\* same database, and every database call of both went through
SameUnitTwice(r1, r2) ==
    /\ r1 # r2
    /\ req[r1].pc = "done" /\ req[r2].pc = "done"
    /\ Kind(req[r1].type) = "izd" /\ req[r1].raw = req[r2].raw
    /\ req[r1].db0 = req[r2].db0
    /\ ~req[r1].faulted /\ ~req[r2].faulted

WellFormed(resp) ==
    /\ resp.success \in BOOLEAN
    /\ resp.msg # ""
    /\ resp.voice # ""

\* the database calls one request can make: a fixed number of single queries
\* and updates, and one per row of the tables its loops run over
CallLimit == 8 + Cardinality(MODELS) + Cardinality(CT_ELEMENTS) + Cardinality(CT_WHDETAIL)

\* C17: for every barcode, and whichever database call of whichever resolver
\* raises, the handler ends with one well-formed response and no exception
\* leaves it: a request in progress always has a next database call to make,
\* every call (returning or raising) brings it one call further, the number of
\* its calls is bounded, and a request that ended has caught what was raised.
C17_HandlerAlwaysResponds ==
    \A r \in Reqs :
        /\ req[r].pc = "done" =>
              /\ WellFormed(req[r].resp)
              /\ req[r].raised \in {"", "ValueError", "DatabaseError"}
        /\ req[r].pc \notin {"idle", "done"} =>
              /\ StepOf(DB, req[r]) # {}
              /\ \A out \in StepOf(DB, req[r]) :
                    /\ out.l.queries + out.l.updates = req[r].queries + req[r].updates + 1
                    /\ out.l.pc = "done" => WellFormed(out.l.resp)
              /\ req[r].queries + req[r].updates < CallLimit

\* a unit scan whose update loop raised after it had approved a row has ended
\* with the database failure response
C17_Witness ==
    \E r \in Reqs :
        /\ req[r].pc = "done" /\ req[r].fault_at = "izd_update"
        /\ req[r].total_updated >= 1
        /\ req[r].raised = "DatabaseError"
        /\ req[r].resp.msg = "database_error" /\ WellFormed(req[r].resp)

\* C18: for a unit barcode and a fixed database, several order items matching
\* the parsed order number and construction included, every run of the resolver
\* selects the same order item and the same set of warehouse rows: another run
\* of a scan over the database it began with selects what the scan selected.
C18_ResolutionDeterministic ==
    \A r \in Reqs :
        (req[r].pc = "done" /\ Kind(req[r].type) = "izd" /\ ~req[r].faulted) =>
            \A run \in Runs(req[r].db0, Dispatch(NewRequest(req[r].raw, req[r].db0))) :
                ~run.l.faulted =>
                    /\ run.l.orderitems_id = req[r].orderitems_id
                    /\ Rows(run.l) = Rows(req[r])

\* the latest approval timestamp of the rows a request fetched
LatestApproval(l) ==
    LET dates == {l.whdetail_records[k].DATEAPPROVED : k \in 1..Len(l.whdetail_records)}
    IN  CHOOSE t \in dates : \A u \in dates : u <= t

\* C19: the already-approved response of a unit scan carries the latest approval
\* timestamp among all the rows the scan accumulated, in whatever order the
\* models and the rows were fetched.
C19_AlreadyApprovedCarriesLatest ==
    \A r \in Reqs :
        (req[r].pc = "done" /\ req[r].resp.msg = "izd_already_approved") =>
            req[r].resp.date = LatestApproval(req[r])

\* C20: on every successful unit scan the voice message names the construction
\* number and the order number of the approved unit, and the message reports
\* the number of newly approved rows out of the number of models.
C20_SuccessNamesUnit ==
    \A r \in Reqs :
        ( /\ req[r].pc = "done"
          /\ Kind(req[r].type) = "izd"
          /\ req[r].resp.success ) =>
            /\ req[r].resp.voice \in {"izd_ready", "order_complete"}
            /\ req[r].resp.text = req[r].order_number
            /\ req[r].resp.text2 = req[r].construction_number
            /\ req[r].resp.num = req[r].total_updated
            /\ req[r].resp.num2 = Len(req[r].models)

(***************************************************************************)
(* The client: BarcodeApp.handle_response.  A message is the sequence of    *)
(* the words of its fixed text, transliterated ("уже было отмечено готовым" *)
(* is uzhe bylo otmecheno gotovym, "уже был отмечен готовым" is uzhe byl    *)
(* otmechen gotovym); a message that shares no word with these is one       *)
(* opaque word.                                                             *)
(***************************************************************************)
Words(resp) ==
    CASE resp.msg = "izd_already_approved" ->
             <<"Izdelie", "uzhe", "bylo", "otmecheno", "gotovym">>
      [] resp.msg = "itm_already_approved" ->
             <<"Material", "uzhe", "byl", "otmechen", "gotovym">>
      [] resp.msg = "set_already_approved" ->
             <<"Nabor", "uzhe", "bylo", "otmecheno", "gotovym">>
      [] resp.msg \in {"izd_approved", "izd_approved_order_complete", "set_approved"} ->
             <<"Uspeshno", "oprihodovano">> \o
             (IF resp.num3 # NULL /\ resp.num3 > 0
              THEN <<"uzhe", "bylo", "prihodovano", "ranee">> ELSE << >>)
      [] OTHER -> <<resp.msg>>

\* str.lower() on the words
LowerWord(w) ==
    CASE w = "Izdelie" -> "izdelie"
      [] w = "Material" -> "material"
      [] w = "Nabor" -> "nabor"
      [] w = "Uspeshno" -> "uspeshno"
      [] OTHER -> w

Lower(ws) == [k \in 1..Len(ws) |-> LowerWord(ws[k])]

\* pattern in message
ContainsWords(ws, pattern) ==
    \E k \in 0..(Len(ws) - Len(pattern)) :
        \A j \in 1..Len(pattern) : ws[k + j] = pattern[j]

AlreadyPattern == <<"uzhe", "bylo", "otmecheno", "gotovym">>

NoStats == [success |-> 0, failed |-> 0, already_approved |-> 0]

\* handle_response: the counter incremented and the sound cue selected
handle_response(stats, data) ==
    LET already == ContainsWords(Lower(Words(data)), AlreadyPattern)
    IN  [stats |-> IF data.success THEN [stats EXCEPT !.success = @ + 1]
                   ELSE IF already THEN [stats EXCEPT !.already_approved = @ + 1]
                   ELSE [stats EXCEPT !.failed = @ + 1],
         sound |-> IF data.success THEN "success"
                   ELSE IF already THEN "already_approved"
                   ELSE "error"]

\* the request reached the already-approved branch of its resolver: every row
\* it fetched was approved
ReachedAlreadyApproved(l) ==
    /\ l.pc = "done" /\ ~l.faulted
    /\ Kind(l.type) \in {"izd", "itm", "set"}
    /\ l.updates = 0
    /\ l.whdetail_records # << >>
    /\ \A k \in 1..Len(l.whdetail_records) : l.whdetail_records[k].ISAPPROVED = 1

\* C21: the client classifies every already-approved outcome of the server, of a
\* unit, a material or a set, as already approved: it increments the
\* already_approved counter, not failed, and selects the already_approved cue.
C21_ClientSeesAlreadyApproved ==
    \A r \in Reqs :
        ReachedAlreadyApproved(req[r]) =>
            handle_response(NoStats, req[r].resp) =
                [stats |-> [NoStats EXCEPT !.already_approved = 1],
                 sound |-> "already_approved"]

\* a date written as YYYY-MM-DD: four, two and two digits that name a day of the
\* calendar
IsIsoDate(s) ==
    /\ Len(s) = 10
    /\ s[5] = "-" /\ s[8] = "-"
    /\ \A k \in {1, 2, 3, 4, 6, 7, 9, 10} : IsDigitChar(s[k])
    /\ DigitsToInt(SubSeq(s, 1, 4)) >= 1
    /\ DigitsToInt(SubSeq(s, 6, 7)) \in 1..12
    /\ DigitsToInt(SubSeq(s, 9, 10)) \in
           1..DaysInMonth(DigitsToInt(SubSeq(s, 1, 4)), DigitsToInt(SubSeq(s, 6, 7)))

IsoDay(s) ==
    Ordinal([y |-> DigitsToInt(SubSeq(s, 1, 4)), m |-> DigitsToInt(SubSeq(s, 6, 7)),
             d |-> DigitsToInt(SubSeq(s, 9, 10))])

StatRejected(msg) ==
    /\ stat.pc = "done"
    /\ stat.resp = StatResponse(FALSE, msg, {})
    /\ stat.queries = 0

\* C22: on both statistics endpoints a date that is not a valid YYYY-MM-DD date,
\* then a start after the end, then a span of more than 365 days, is answered
\* with success = false and no data without a query; a span of 365 days passes.
C22_StatisticsDatesValidated ==
    stat.pc # "idle" =>
        IF ~IsIsoDate(stat.start_date) \/ ~IsIsoDate(stat.end_date)
        THEN StatRejected("invalid_date_format")
        ELSE IF IsoDay(stat.start_date) > IsoDay(stat.end_date)
        THEN StatRejected("start_after_end")
        ELSE IF IsoDay(stat.end_date) - IsoDay(stat.start_date) > 365
        THEN StatRejected("range_too_long")
        ELSE stat.queries = (IF stat.pc = "done" THEN 1 ELSE 0)

LowerChar(c) ==
    IF \E i \in 1..Len(UpperCase) : UpperCase[i] = c
    THEN LowerCase[CHOOSE i \in 1..Len(UpperCase) : UpperCase[i] = c]
    ELSE c

LowerChars(s) == [i \in 1..Len(s) |-> LowerChar(s[i])]

AllDigits(s) == \A i \in 1..Len(s) : IsDigitChar(s[i])

\* the rule table, on a trimmed upper-case string and the prefix taken from it
RuleTable(s, prefix) ==
    CASE Contains(s, "-") /\ prefix \in {<<"D">>, <<"I", "Z", "D">>} -> "IZD"
      [] Contains(s, "-") /\ prefix = <<"O", "R", "D">> -> "ORD"
      [] Contains(s, "-") /\ prefix \in {<<"T">>, <<"I", "T", "M">>} -> "ITM"
      [] Contains(s, "-") /\ prefix \in {<<"S">>, <<"S", "E", "T">>} -> "SET"
      [] OTHER -> IF AllDigits(s) /\ Len(s) = 9 THEN "LEGACY_IZD"
                  ELSE IF AllDigits(s) /\ Len(s) > 0 THEN "LEGACY_ORD"
                  ELSE "UNKNOWN"

\* the characters before the first dash
BeforeDash(s) == IF Contains(s, "-") THEN SubSeq(s, 1, FirstIndex(s, "-") - 1) ELSE << >>

\* the same string in other letter case and with whitespace around it
Variants(raw) ==
    {raw, LowerChars(raw), Upper(raw), <<" ">> \o raw, raw \o <<"\t">>,
     <<"\t", " ">> \o LowerChars(raw) \o <<" ">>}

UnitTargets(l) ==
    {w.CTWHDETAILID : w \in
        {w \in CT_WHDETAIL :
            /\ w.ITEMNO = l.item_number
            /\ \E m \in MODELS, e \in CT_ELEMENTS :
                   /\ m.ORDERITEMSID = l.orderitems_id
                   /\ e.MODELID = m.MODELID
                   /\ e.CTELEMENTSID = w.CTELEMENTSID
                   /\ e.CTTYPEELEMSID = 2}}

SuccessfulUnitScan(l) == l.pc = "done" /\ Kind(l.type) = "izd" /\ l.resp.success

\* C24: a successful unit scan leaves approved every row with its item number on
\* a type-2 element of any model of the resolved order item, and changes no other
\* row; the rows that were approved before keep their timestamp.
C24_UnitScanApprovesItsRowsOnly ==
    \A r \in Reqs :
        SuccessfulUnitScan(req[r]) =>
            /\ \A id \in UnitTargets(req[r]) : wh[id].ISAPPROVED = 1
            /\ \A id \in WhIds \ UnitTargets(req[r]) : wh[id] = req[r].db0.wh[id]
            /\ \A id \in UnitTargets(req[r]) :
                   req[r].db0.wh[id].ISAPPROVED = 1 => wh[id] = req[r].db0.wh[id]

\* a unit with rows under two models was approved: one of its rows had been
\* approved by an earlier scan, the other was approved now, and a row of another
\* item number of the same model is still unapproved
C24_Witness ==
    \E r \in Reqs :
        /\ SuccessfulUnitScan(req[r])
        /\ Cardinality(UnitTargets(req[r])) = 2
        /\ req[r].total_updated = 1
        /\ \E id \in UnitTargets(req[r]) : req[r].db0.wh[id].ISAPPROVED = 1
        /\ \E id \in WhIds \ UnitTargets(req[r]) :
               /\ wh[id].ISAPPROVED = 0
               /\ \E t \in UnitTargets(req[r]) :
                      WhRow(id).CTELEMENTSID = WhRow(t).CTELEMENTSID

\* a unit scan that approved at least one row and met no database failure
ApprovedCleanly(l) ==
    /\ l.pc = "done" /\ Kind(l.type) = "izd" /\ ~l.faulted
    /\ l.total_updated >= 1

\* the positions of the records of the order in a log
Positions(lg, o) == {lg[k].stateposit : k \in {j \in 1..Len(lg) : lg[j].orderid = o}}

\* the record the monitor writes for order o after the log lg
ReadyRecord(lg, o) ==
    [orderid |-> o, orderstateid |-> Ready, empid |-> ScriptEmp,
     stateposit |-> IF Positions(lg, o) = {} THEN 1
                    ELSE 1 + CHOOSE p \in Positions(lg, o) : \A q \in Positions(lg, o) : q <= p]

\* after the updates no type-2 row of the order is unapproved, the order has
\* weight, and it was not Ready
CompletesOrder(l) ==
    /\ \A id \in Type2Rows(l.order_id) : wh[id].ISAPPROVED = 1
    /\ Sum(RowQty, Type2Rows(l.order_id)) > 0
    /\ l.db0.ostate[l.order_id] # Ready

\* C25: a unit scan that newly approves a row without a database failure sets the
\* order Ready and appends exactly one record (Ready, script user, position
\* max + 1, or 1 on an empty log) if and only if no type-2 row of the order is
\* left unapproved, the order has weight and it was not Ready already; otherwise
\* it writes no record and leaves the order states as they were.
C25_MonitorCompletesExactly ==
    \A r \in Reqs :
        ApprovedCleanly(req[r]) =>
            IF CompletesOrder(req[r])
            THEN /\ ostate = [req[r].db0.ostate EXCEPT ![req[r].order_id] = Ready]
                 /\ log = Append(req[r].db0.log, ReadyRecord(req[r].db0.log, req[r].order_id))
            ELSE /\ ostate = req[r].db0.ostate
                 /\ log = req[r].db0.log

\* a scan completed an order whose log had records already
C25_Witness ==
    \E r \in Reqs :
        /\ ApprovedCleanly(req[r])
        /\ CompletesOrder(req[r])
        /\ Positions(req[r].db0.log, req[r].order_id) # {}
        /\ ostate[req[r].order_id] = Ready
        /\ Len(log) = Len(req[r].db0.log) + 1

\* exactly nine decimal digits
NineDecimalDigits(v) ==
    /\ Len(v) = 9
    /\ \A i \in 1..Len(v) : v[i] \in {"0", "1", "2", "3", "4", "5", "6", "7", "8", "9"}

\* C26: a unit barcode whose value is not exactly nine decimal digits is rejected
\* with the invalid-format failure before any database read or write.
C26_BadUnitValueRejected ==
    \A r \in Reqs :
        ( /\ req[r].pc # "idle"
          /\ Kind(req[r].type) = "izd"
          /\ ~NineDecimalDigits(req[r].value) ) =>
            /\ req[r].pc = "done"
            /\ req[r].resp.success = FALSE
            /\ req[r].resp.msg = "izd_invalid_barcode"
            /\ req[r].resp.info.present = FALSE
            /\ req[r].queries = 0 /\ req[r].updates = 0

\* the outcomes a unit scan may end with, decided from the tables: the first check that
\* fails among glass not found, name not parsed, product not found, item number
\* above the quantity, no model, no warehouse row
UnitVerdicts(l) ==
    LET glass == {oi \in ORDERITEMS : oi.ORDERITEMSID = l.glass_orderitems_id}
    IN  IF glass = {} THEN {"izd_glass_not_found"}
        ELSE LET name == Strip((CHOOSE g \in glass : TRUE).NAME)
             IN  IF ~Contains(name, "/")
                 THEN {"izd_glass_name_format", "izd_glass_name_parse"}
                 ELSE LET parts    == Split(name, "/")
                          products == {oi \in ORDERITEMS :
                                          /\ oi.NAME = Strip(parts[2])
                                          /\ \E o \in ORDERS : /\ o.ORDERID = oi.ORDERID
                                                               /\ o.ORDERNO = Strip(parts[1])}
                      IN  IF products = {} THEN {"izd_product_not_found"}
                          ELSE LET oi == CHOOSE x \in products : x.ORDERITEMSID = l.orderitems_id
                               IN  IF l.item_number > oi.QTY THEN {"izd_item_exceeds_qty"}
                                   ELSE IF {m \in MODELS : m.ORDERITEMSID = oi.ORDERITEMSID} = {}
                                   THEN {"izd_models_not_found"}
                                   ELSE IF UnitTargets(l) = {} THEN {"izd_not_in_warehouse"}
                                   ELSE {"izd_already_approved", "izd_approved",
                                         "izd_approved_order_complete", "update_failed"}

\* C27: in a unit scan an item number above the planned quantity of the resolved
\* order item fails the scan before the models and the warehouse rows are looked
\* up and changes nothing; the failures of a unit scan are decided in the order
\* glass not found, name not parsed, product not found, item number above the
\* quantity, no model, no warehouse row.
C27_UnitFailuresInOrder ==
    \A r \in Reqs :
        ( /\ req[r].pc = "done" /\ ~req[r].faulted
          /\ Kind(req[r].type) = "izd"
          /\ NineDecimalDigits(req[r].value) ) =>
            /\ req[r].resp.msg \in UnitVerdicts(req[r])
            /\ req[r].resp.msg = "izd_item_exceeds_qty" =>
                   /\ req[r].resp.success = FALSE
                   /\ req[r].queries = 2 /\ req[r].updates = 0
                   /\ req[r].models = << >> /\ req[r].whdetail_records = << >>
                   /\ Untouched(r)

\* the third item of a construction planned twice was scanned after rows of that
\* construction had been approved
C27_Witness ==
    \E r \in Reqs :
        /\ req[r].pc = "done" /\ ~req[r].faulted
        /\ req[r].resp.msg = "izd_item_exceeds_qty"
        /\ req[r].item_number = 3 /\ req[r].product.QTY = 2
        /\ \E id \in WhIds : wh[id].ISAPPROVED = 1

\* the scan fetched a row that was not approved, and no UPDATE of it found a row
AllUpdatesMissed(l) ==
    /\ \E k \in 1..Len(l.whdetail_records) : l.whdetail_records[k].ISAPPROVED = 0
    /\ l.updates > 0
    /\ l.total_updated = 0

\* C28: a unit or set scan that found an unapproved target row and whose UPDATEs
\* all reported zero affected rows answers the update-failed failure without
\* product info; a unit scan then does not run the completion monitor: nothing
\* is inserted into the register of states and no order changes its state.
C28_NoRowUpdatedFails ==
    \A r \in Reqs :
        ( /\ req[r].pc = "done" /\ ~req[r].faulted
          /\ Kind(req[r].type) \in {"izd", "set"}
          /\ AllUpdatesMissed(req[r]) ) =>
            /\ req[r].resp.success = FALSE
            /\ req[r].resp.msg = "update_failed"
            /\ req[r].resp.info = NoInfo
            /\ Kind(req[r].type) = "izd" =>
                   /\ log = req[r].db0.log
                   /\ ostate = req[r].db0.ostate
                   /\ req[r].queries = 3 + Len(req[r].models)

\* the only row of the last unit of order 2 was deleted between its SELECT and
\* its UPDATE: the order stays in work although no unapproved row is left
C28_Witness ==
    \E r \in Reqs :
        /\ req[r].pc = "done" /\ ~req[r].faulted
        /\ Kind(req[r].type) = "izd" /\ req[r].order_id = 2
        /\ AllUpdatesMissed(req[r])
        /\ req[r].resp.msg = "update_failed"
        /\ 6 \notin DOMAIN wh
        /\ ostate[2] # Ready

\* both rows of a unit were deleted after the set scan had fetched its row
C28_WitnessSet ==
    \E r \in Reqs :
        /\ req[r].pc = "done" /\ ~req[r].faulted
        /\ Kind(req[r].type) = "set"
        /\ AllUpdatesMissed(req[r])
        /\ req[r].resp.msg = "update_failed"

\* the rows of CT_WHDETAIL that differ from what they were when the scan r began
RowsChanged(r) == {id \in WhIds : wh[id] # req[r].db0.wh[id]}

\* C29: a material scan changes at most one row of CT_WHDETAIL: a row of the one
\* element it resolved, which carries the scanned reference; the row was not
\* approved and is approved now; every other row, of that element or of another
\* element with the same reference, is as it was.  A scan that went through
\* without a failure of the database changed the row it fetched if that row was
\* unapproved and nothing if it was approved.
C29_MaterialChangesOneRow ==
    \A r \in Reqs :
        (req[r].pc = "done" /\ Kind(req[r].type) = "itm") =>
            /\ Cardinality(RowsChanged(r)) <= 1
            /\ \A id \in RowsChanged(r) :
                   /\ WhRow(id).CTELEMENTSID = req[r].element
                   /\ Element(req[r].element).ITEMSDETAILID = req[r].num
                   /\ req[r].whdetail_records[1].CTWHDETAILID = id
                   /\ req[r].db0.wh[id].ISAPPROVED = 0
                   /\ wh[id].ISAPPROVED = 1
            /\ (~req[r].faulted /\ req[r].whdetail_records # << >>) =>
                   RowsChanged(r) =
                       IF req[r].whdetail_records[1].ISAPPROVED = 0
                       THEN {req[r].whdetail_records[1].CTWHDETAILID} ELSE {}

\* the scan of reference 9 approved one of the two rows of element 12; the other
\* row of that element and the row of element 13 stay unapproved
C29_Witness ==
    \E r \in Reqs :
        /\ req[r].pc = "done" /\ ~req[r].faulted
        /\ Kind(req[r].type) = "itm" /\ req[r].num = 9
        /\ RowsChanged(r) = {21}
        /\ wh[22].ISAPPROVED = 0 /\ wh[23].ISAPPROVED = 0

\* the rows of CT_WHDETAIL of all elements that carry the set reference
SetRows(reference) ==
    UNION {ElementRowIds(e.CTELEMENTSID) :
              e \in {e \in CT_ELEMENTS : e.ITEMSSETSID # NULL /\ e.ITEMSSETSID = reference}}

\* a set scan that went through: rows were found, no call of the database failed
\* and no UPDATE missed its row
SetScanWentThrough(l) ==
    /\ l.pc = "done" /\ ~l.faulted
    /\ Kind(l.type) = "set"
    /\ l.whdetail_records # << >>
    /\ l.resp.msg # "update_failed"

\* the rows of the set were left approved, and exactly those that were not approved
\* before the scan were written
SetRowsApproved(r) ==
    LET rows == SetRows(req[r].num)
    IN  /\ \A id \in rows : wh[id].ISAPPROVED = 1
        /\ RowsChanged(r) = {id \in rows : req[r].db0.wh[id].ISAPPROVED = 0}
        /\ req[r].updates = Cardinality(RowsChanged(r))

\* C30: a set scan that does not fail leaves approved every row of every element
\* that carries the set reference; it answers already approved exactly when all
\* these rows were approved before the scan, and otherwise it updates exactly the
\* rows that were unapproved and reports their number as newly approved.
C30_SetScanApprovesUnion ==
    \A r \in Reqs :
        SetScanWentThrough(req[r]) =>
            LET before == {id \in SetRows(req[r].num) : req[r].db0.wh[id].ISAPPROVED = 0}
            IN  /\ SetRowsApproved(r)
                /\ req[r].resp.msg = "set_already_approved" <=> before = {}
                /\ before # {} =>
                       /\ req[r].resp.msg = "set_approved"
                       /\ req[r].resp.num = Cardinality(before)

\* C31: a scan of any kind that answers success = false has changed nothing in
\* the database: no approval flag or timestamp, no state of an order, no record
\* in the register of states; this also when a call of the database fails inside
\* the update loop or the response cannot be built after the writes.
C31_FailureChangesNothing ==
    \A r \in Reqs :
        (req[r].pc = "done" /\ req[r].resp.success = FALSE) => Untouched(r)

\* C32: a unit scan approves rows only for an item number between 1 and the
\* planned quantity of the resolved order item; a barcode that begins with 00
\* (item number 0) never causes a row to be approved.
C32_ItemNumberWithinQuantity ==
    \A r \in Reqs :
        (Kind(req[r].type) = "izd" /\ req[r].pc # "idle" /\ RowsChanged(r) # {}) =>
            /\ 1 <= req[r].item_number
            /\ req[r].item_number <= req[r].product.QTY

\* ORDERITEMS.ORDERID of the scanned glass row
GlassOrder(l) ==
    (CHOOSE oi \in ORDERITEMS : oi.ORDERITEMSID = l.glass_orderitems_id).ORDERID

\* C33: the rows a unit scan approves, and the order whose completion it then
\* evaluates, belong to the order of the scanned glass row (the ORDERID of that
\* row), although the construction is found by the order number and the
\* construction number parsed from the name of the glass row.
C33_UnitStaysInGlassOrder ==
    \A r \in Reqs :
        ( /\ Kind(req[r].type) = "izd" /\ req[r].pc = "done"
          /\ req[r].order_id # NULL ) =>
            /\ req[r].order_id = GlassOrder(req[r])
            /\ RowsChanged(r) \subseteq Type2Rows(GlassOrder(req[r]))

\* two unit scans, one per server, have both ended and no call of the database
\* failed in either
TwoUnitScansEnded ==
    /\ scans = 2
    /\ \A r \in Reqs : /\ req[r].pc = "done" /\ ~req[r].faulted
                       /\ Kind(req[r].type) = "izd"

\* the order has rows of type-2 elements and none of them is unapproved
AllRowsApproved(o) ==
    /\ Type2Rows(o) # {}
    /\ \A id \in Type2Rows(o) : wh[id].ISAPPROVED = 1

\* C34: completion is not lost under concurrency: in every interleaving of
\* concurrent unit scans of one order that together approve all its unapproved
\* rows of type-2 elements, with no failure of the database, the order is Ready
\* once the scans have ended.
C34_CompletionNotLost ==
    TwoUnitScansEnded =>
        \A o \in OrderIds : AllRowsApproved(o) => ostate[o] = Ready

\* the scans of the two units of order 1 overlapped: each recount ran after both
\* update loops, both saw the order in work and both wrote a record
C34_Witness ==
    /\ TwoUnitScansEnded
    /\ AllRowsApproved(1)
    /\ req[1].value # req[2].value
    /\ \A r \in Reqs : req[r].db0.ostate[1] = 3 /\ req[r].current_state = 3
    /\ ostate[1] = Ready

\* C35: the approval timestamp of a row is written at most once, in every
\* interleaving of concurrent unit, material and set scans of the row: once the
\* row is approved no UPDATE of a scan overwrites its timestamp.
C35_TimestampWrittenOnce ==
    [][\A id \in WhIds :
           wh[id].ISAPPROVED = 1 => wh'[id].DATEAPPROVED = wh[id].DATEAPPROVED]_vars

\* the records of the order o in the register of states
RecordsOf(o) == {k \in 1..Len(log) : log[k].orderid = o}

\* the state of the order o is the state of its record of the highest position
StateIsLastRecord(o) ==
    \A k \in RecordsOf(o) :
        (\A j \in RecordsOf(o) : log[j].stateposit <= log[k].stateposit) =>
            ostate[o] = log[k].orderstateid

\* C36: after every scan that has ended, with success or not and also when a call
\* of the database raised in it, every order with a record inserted by this
\* system is in the state of its record of the highest position: no record is
\* left in the register without the matching update of the order.
C36_LogAndStateAgree ==
    (\A r \in Reqs : req[r].pc \in {"idle", "done"}) =>
        \A o \in OrderIds :
            (\E k \in RecordsOf(o) : log[k].empid = ScriptEmp) => StateIsLastRecord(o)

(***************************************************************************)
(* The desktop client: its actions.                                         *)
(***************************************************************************)
\* handle_error: the scan is counted as failed
handle_error(stats) == [stats EXCEPT !.failed = @ + 1]

\* what requests.post gives the client
ClientAnswers == {"ok", "http_error", "timeout", "connection_error", "exception"}

\* where handle_response raises, if it does: before it touches a counter
\* (data.get, message.lower()) or after (add_to_history, the start of the sound
\* thread)
RaisePoints == {"none", "before", "after"}

\* the answers of the server the client is given
ClientData ==
    { Response(TRUE, "izd_approved", "izd_ready"),
      Response(FALSE, "izd_already_approved", "izd_already_approved"),
      Response(FALSE, "itm_already_approved", "itm_already_approved"),
      Response(FALSE, "izd_glass_not_found", "izd_glass_not_found") }

\* the text of the input field: empty, blank, a barcode
ClientBarcodes == { << >>, <<" ">>, Prefixed(<<"D">>, Unit0111) }

\* process_barcode up to requests.post: an empty barcode returns, any other
\* is counted in total
BeginScan(c, barcode) ==
    IF Strip(barcode) = << >> THEN c
    ELSE [c EXCEPT !.stats.total = @ + 1, !.window = "posting"]

\* process_barcode from the answer on: the 200 branch, the other statuses and
\* the three except clauses
EndScan(c, answer, data, raised) ==
    LET counted == handle_response(c.stats, data).stats
        stats   == IF answer # "ok" THEN handle_error(c.stats)
                   ELSE CASE raised = "none" -> counted
                          [] raised = "before" -> handle_error(c.stats)
                          [] raised = "after" -> handle_error(counted)
    IN  [c EXCEPT !.stats = stats, !.window = "idle"]

ClientFrame == UNCHANGED <<wh, ostate, log, clock, req, scans, succeeded, stat>>

\* a tick of stats_timer, the single shot after the start, or the refresh button
start_background_stats_loading ==
    /\ client.window = "idle"
    /\ \E t \in Loaders :
           /\ client.loader[t].pc = "unborn"
           /\ \A u \in Loaders : u < t => client.loader[u].pc # "unborn"
           /\ client' = StartLoading(client, t)
    /\ ClientFrame

LoadDailyStep(t) ==
    /\ client.loader[t].pc = "daily"
    /\ \E outcome \in LoadOutcomes : client' = LoadDaily(client, t, outcome)
    /\ ClientFrame

LoadOrderStep(t) ==
    /\ client.loader[t].pc = "order"
    /\ \E outcome \in LoadOutcomes : client' = LoadOrder(client, t, outcome)
    /\ ClientFrame

LoadSaveStep(t) ==
    /\ client.loader[t].pc = "save"
    /\ client' = LoadSave(client, t)
    /\ ClientFrame

LoadFinallyStep(t) ==
    /\ client.loader[t].pc = "finally"
    /\ client' = LoadFinally(client, t)
    /\ ClientFrame

\* load_statistics_background in the thread t
load_statistics_background(t) ==
    \/ LoadDailyStep(t)
    \/ LoadOrderStep(t)
    \/ LoadSaveStep(t)
    \/ LoadFinallyStep(t)

BarcodeEntered(barcode) ==
    /\ client.window = "idle"
    /\ client.stats.total < MaxClientScans
    /\ client' = BeginScan(client, barcode)
    /\ ClientFrame

BarcodeAnswered ==
    /\ client.window = "posting"
    /\ \E answer \in ClientAnswers, data \in ClientData, raised \in RaisePoints :
           client' = EndScan(client, answer, data, raised)
    /\ ClientFrame

NextClient ==
    \/ start_background_stats_loading
    \/ \E t \in Loaders : load_statistics_background(t)
    \/ \E barcode \in ClientBarcodes : BarcodeEntered(barcode)
    \/ BarcodeAnswered

SpecClient == Init /\ [][NextClient]_vars

\* a started thread runs: every requests.get of the loader has timeout=10
SpecClientFair ==
    SpecClient /\ \A t \in Loaders : WF_vars(load_statistics_background(t))

\* the scan path does not read the flag: with the flag the other way round
\* process_barcode does the same
ScanIgnoresFlag ==
    \A barcode \in ClientBarcodes :
        LET other == [client EXCEPT !.stats_loading = ~@]
        IN  BeginScan(other, barcode) = [BeginScan(client, barcode) EXCEPT !.stats_loading = ~@]

\* C37: the loading of the statistics never blocks the scan path and never
\* blocks itself for good: the flag stats_loading is set only while a loader
\* thread runs and is reset after every load, ended well or raised, so that a
\* later request to refresh is accepted; process_barcode does not wait on it.
C37_StatsLoadingAlwaysReset ==
    /\ [](client.stats_loading => InFlight(client) # {})
    /\ [](ScanIgnoresFlag)
    /\ (client.stats_loading ~> ~client.stats_loading)

\* the first load raised at its first request, and the next request to refresh
\* was accepted while a barcode was being sent
C37_Witness ==
    /\ client.loader[1].pc = "ended" /\ client.loader[1].daily_data = ""
    /\ client.loader[2].pc = "daily" /\ client.refresh = "started"
    /\ client.stats.total > 0

\* C38: at most one background load of the statistics is in flight: for every
\* sequence of ticks of the timer and clicks of the refresh button, a request
\* that arrives while stats_loading is set starts no thread, so that two loader
\* threads never run, and never write the cached statistics, at the same time.
C38_OneLoaderInFlight ==
    /\ [](Cardinality(InFlight(client)) <= 1)
    /\ [][client.stats_loading =>
             \A t \in Loaders :
                 client.loader[t].pc = "unborn" => client'.loader[t].pc = "unborn"]_vars

\* a request to refresh arrived while the first thread was about to write the
\* cache, and was skipped
C38_Witness ==
    /\ client.refresh = "skipped"
    /\ client.loader[1].pc = "save"
    /\ client.loader[2].pc = "unborn"
    /\ client.stats_loading

\* C39: after every call of process_barcode with a barcode that is not empty,
\* total = success + already_approved + failed: a scan adds one to total and
\* one to exactly one of the three counters, whatever the answer of the server
\* or the error (HTTP error, timeout, connection error, an exception raised
\* while the response is handled).
C39_CountersAddUp ==
    client.window = "idle" =>
        client.stats.total =
            client.stats.success + client.stats.already_approved + client.stats.failed

====
